---------------------------- MODULE Spec2Model ----------------------------
(***************************************************************************)
(* A model of the aipilot-cli bridge daemon: the WebSocket reader and its  *)
(* control channel, the chunked upload reassembler, the two-client         *)
(* viewport multiplexer, the relay connection loop and the shutdown paths. *)
(*                                                                         *)
(* Strings are modelled as sequences of bytes (0..255), so that splitting, *)
(* number scanning, base64 and the control-frame sentinel are computed the *)
(* way the Go code computes them.                                          *)
(***************************************************************************)
EXTENDS Integers, Sequences, FiniteSets, TLC

(***************************************************************************)
(* Bounds of the model.                                                    *)
(***************************************************************************)
MaxFrames == 4          \* inbound WebSocket frames handled in one run
MaxTime == 13           \* clock ticks observed in one run
MaxTimedFrames == 3     \* frames read while the clock runs
MaxKeys == 1            \* local keystrokes read in one run
MaxSignals == 1         \* window-change signals delivered in one run
MaxViewFrames == 2      \* frames read in a viewport run
MaxRelayFrames == 1     \* frames read per run of the connection loop
MaxTail == 2            \* bytes after the line start of an interceptor stream
MaxChunk == 2           \* bytes returned by one read of the PTY
MaxOutFrames == 2       \* frames read while the PTY output is mirrored
MaxSessions == 3        \* create_session calls answered by the relay
MaxDials == 4           \* dials attempted by the connection loop
MaxPairFrames == 1      \* mobile_paired frames taken by the reader
MaxPolls == 2           \* ticks handled by a pairing poll
MaxCalls == 1           \* steps taken by the relay client on its own
MaxBurst == 3           \* printable keys typed while the debounce clock runs
MaxPings == 1           \* ticks taken by the ping goroutines
MaxJobs == 2            \* functions started by the tasks that take locks

(***************************************************************************)
(* Byte-string helpers.                                                    *)
(***************************************************************************)
Byte == 0..255
Colon == 58
Comma == 44

RECURSIVE Concat(_)
Concat(ss) == IF ss = <<>> THEN <<>> ELSE Head(ss) \o Concat(Tail(ss))

\* index of the first occurrence of byte c in s, 0 when absent
RECURSIVE IndexByte(_, _, _)
IndexByte(s, c, i) ==
    IF i > Len(s) THEN 0
    ELSE IF s[i] = c THEN i
    ELSE IndexByte(s, c, i + 1)

\* strings.SplitN(s, sep, n) for a one-byte separator and n > 0
RECURSIVE SplitN(_, _, _)
SplitN(s, sep, n) ==
    LET i == IndexByte(s, sep, 1) IN
    IF n <= 1 \/ i = 0 THEN <<s>>
    ELSE <<SubSeq(s, 1, i - 1)>> \o SplitN(SubSeq(s, i + 1, Len(s)), sep, n - 1)

\* strings.Split(s, sep): every separator splits
RECURSIVE Split(_, _)
Split(s, sep) ==
    LET i == IndexByte(s, sep, 1) IN
    IF i = 0 THEN <<s>>
    ELSE <<SubSeq(s, 1, i - 1)>> \o Split(SubSeq(s, i + 1, Len(s)), sep)

IsDigit(c) == c >= 48 /\ c <= 57
IsSpace(c) == c \in {32, 9, 10, 11, 12, 13}

RECURSIVE SkipSpace(_)
SkipSpace(s) == IF s # <<>> /\ IsSpace(Head(s)) THEN SkipSpace(Tail(s)) ELSE s

RECURSIVE ScanDigits(_, _)
ScanDigits(s, acc) ==
    IF s # <<>> /\ IsDigit(Head(s))
    THEN ScanDigits(Tail(s), acc * 10 + (Head(s) - 48))
    ELSE acc

\* fmt.Sscanf(s, "%d", &v) on a variable that starts at 0: leading spaces are
\* skipped, an optional sign and the leading digits are read; with no digit
\* the scan fails and the variable keeps its 0.
Sscanf(s) ==
    LET t == SkipSpace(s)
        neg == t # <<>> /\ Head(t) = 45
        u == IF t # <<>> /\ Head(t) \in {43, 45} THEN Tail(t) ELSE t
    IN IF u = <<>> \/ ~IsDigit(Head(u)) THEN 0
       ELSE IF neg THEN 0 - ScanDigits(u, 0) ELSE ScanDigits(u, 0)

\* the %d verb of fmt.Sprintf
RECURSIVE ItoaNat(_)
ItoaNat(n) == IF n < 10 THEN <<48 + n>> ELSE ItoaNat(n \div 10) \o <<48 + (n % 10)>>
Itoa(n) == IF n < 0 THEN <<45>> \o ItoaNat(0 - n) ELSE ItoaNat(n)

(***************************************************************************)
(* base64.StdEncoding                                                      *)
(***************************************************************************)
\* the 6-bit value of an alphabet character, -1 for any other byte
B64Val(c) ==
    IF c >= 65 /\ c <= 90 THEN c - 65
    ELSE IF c >= 97 /\ c <= 122 THEN c - 71
    ELSE IF c >= 48 /\ c <= 57 THEN c + 4
    ELSE IF c = 43 THEN 62
    ELSE IF c = 47 THEN 63
    ELSE -1

B64Char(v) ==
    IF v < 26 THEN 65 + v
    ELSE IF v < 52 THEN 71 + v
    ELSE IF v < 62 THEN v - 4
    ELSE IF v = 62 THEN 43
    ELSE 47

\* one quantum of four characters; last tells whether padding is allowed
B64Quad(q, last) ==
    LET a == B64Val(q[1])
        b == B64Val(q[2])
        c == B64Val(q[3])
        d == B64Val(q[4])
    IN IF a < 0 \/ b < 0 THEN [ok |-> FALSE, data |-> <<>>]
       ELSE IF q[3] = 61 /\ q[4] = 61
            THEN [ok |-> last, data |-> <<a * 4 + b \div 16>>]
       ELSE IF c < 0 THEN [ok |-> FALSE, data |-> <<>>]
       ELSE IF q[4] = 61
            THEN [ok |-> last, data |-> <<a * 4 + b \div 16, (b % 16) * 16 + c \div 4>>]
       ELSE IF d < 0 THEN [ok |-> FALSE, data |-> <<>>]
       ELSE [ok |-> TRUE,
             data |-> <<a * 4 + b \div 16, (b % 16) * 16 + c \div 4, (c % 4) * 64 + d>>]

\* base64.StdEncoding.DecodeString: [ok, data]; a length that is no multiple
\* of four, a byte outside the alphabet or misplaced padding is an error
RECURSIVE B64Decode(_)
B64Decode(s) ==
    IF s = <<>> THEN [ok |-> TRUE, data |-> <<>>]
    ELSE IF Len(s) < 4 THEN [ok |-> FALSE, data |-> <<>>]
    ELSE LET q == B64Quad(SubSeq(s, 1, 4), Len(s) = 4)
             r == B64Decode(SubSeq(s, 5, Len(s)))
         IN IF q.ok /\ r.ok THEN [ok |-> TRUE, data |-> q.data \o r.data]
            ELSE [ok |-> FALSE, data |-> <<>>]

\* base64.StdEncoding.EncodeToString
RECURSIVE B64Encode(_)
B64Encode(s) ==
    IF s = <<>> THEN <<>>
    ELSE IF Len(s) = 1
         THEN <<B64Char(s[1] \div 4), B64Char((s[1] % 4) * 16), 61, 61>>
    ELSE IF Len(s) = 2
         THEN <<B64Char(s[1] \div 4), B64Char((s[1] % 4) * 16 + s[2] \div 16),
                B64Char((s[2] % 16) * 4), 61>>
    ELSE <<B64Char(s[1] \div 4), B64Char((s[1] % 4) * 16 + s[2] \div 16),
           B64Char((s[2] % 16) * 4 + s[3] \div 64), B64Char(s[3] % 64)>>
         \o B64Encode(SubSeq(s, 4, Len(s)))

(***************************************************************************)
(* String literals of the protocol.                                        *)
(***************************************************************************)
\* the words of the control channel, as bytes
LitControl(s) ==
    CASE s = "CTRL:" -> <<67,84,82,76,58>>
      [] s = "resize" -> <<114,101,115,105,122,101>>
      [] s = "file-upload" -> <<102,105,108,101,45,117,112,108,111,97,100>>
      [] s = "file-upload-start" -> <<102,105,108,101,45,117,112,108,111,97,100,45,115,116,97,114,116>>
      [] s = "file-upload-chunk" -> <<102,105,108,101,45,117,112,108,111,97,100,45,99,104,117,110,107>>
      [] s = "file-upload-cancel" -> <<102,105,108,101,45,117,112,108,111,97,100,45,99,97,110,99,101,108>>
      [] s = "info-request" -> <<105,110,102,111,45,114,101,113,117,101,115,116>>
      [] s = "ssh-setup-key" -> <<115,115,104,45,115,101,116,117,112,45,107,101,121>>
      [] s = "mobile-info" -> <<109,111,98,105,108,101,45,105,110,102,111>>
      [] s = "cli-info:{}" -> <<99,108,105,45,105,110,102,111,58,123,125>>
      [] s = "Invalid file upload format" -> <<73,110,118,97,108,105,100,32,102,105,108,101,32,117,112,108,111,97,100,32,102,111,114,109,97,116>>

\* the words of the upload protocol, the temporary directory and the text
\* of a write error, as bytes
LitUpload(s) ==
    CASE s = "file-upload-ack:" -> <<102,105,108,101,45,117,112,108,111,97,100,45,97,99,107,58>>
      [] s = ":started" -> <<58,115,116,97,114,116,101,100>>
      [] s = ":cancelled" -> <<58,99,97,110,99,101,108,108,101,100>>
      [] s = "file-upload-result:" -> <<102,105,108,101,45,117,112,108,111,97,100,45,114,101,115,117,108,116,58>>
      [] s = "error:" -> <<101,114,114,111,114,58>>
      [] s = "success:" -> <<115,117,99,99,101,115,115,58>>
      [] s = "Invalid chunk data for " -> <<73,110,118,97,108,105,100,32,99,104,117,110,107,32,100,97,116,97,32,102,111,114,32>>
      [] s = "Unknown upload " -> <<85,110,107,110,111,119,110,32,117,112,108,111,97,100,32>>
      [] s = "Missing chunk " -> <<77,105,115,115,105,110,103,32,99,104,117,110,107,32>>
      [] s = " for " -> <<32,102,111,114,32>>
      [] s = "Invalid filename" -> <<73,110,118,97,108,105,100,32,102,105,108,101,110,97,109,101>>
      [] s = "Failed to write file: " -> <<70,97,105,108,101,100,32,116,111,32,119,114,105,116,101,32,102,105,108,101,58,32>>
      [] s = "Invalid file encoding" -> <<73,110,118,97,108,105,100,32,102,105,108,101,32,101,110,99,111,100,105,110,103>>
      [] s = "/tmp" -> <<47,116,109,112>>
      [] s = "aipilot_" -> <<97,105,112,105,108,111,116,95>>
      [] s = "/mention " -> <<47,109,101,110,116,105,111,110,32>>
      [] s = "EIO" -> <<69,73,79>>

\* the words of the mode notification, as bytes
LitViewport(s) ==
    CASE s = "mode:" -> <<109,111,100,101,58>>
      [] s = "pc" -> <<112,99>>
      [] s = "mobile" -> <<109,111,98,105,108,101>>

\* the meta-commands, as bytes
LitCommand(s) ==
    CASE s = "//qr" -> <<47,47,113,114>>
      [] s = "//qr-image" -> <<47,47,113,114,45,105,109,97,103,101>>
      [] s = "//status" -> <<47,47,115,116,97,116,117,115>>
      [] s = "//disconnect" -> <<47,47,100,105,115,99,111,110,110,101,99,116>>
      [] s = "//purge" -> <<47,47,112,117,114,103,101>>
      [] s = "//quit" -> <<47,47,113,117,105,116>>

(***************************************************************************)
(* Session cipher (session.go).  AES-256-GCM is replaced by a small        *)
(* arithmetic AEAD with the same interface and sizes: the output is        *)
(* nonce || ciphertext || tag, and opening fails unless the tag was made   *)
(* with the same key over the same nonce and ciphertext.                   *)
(***************************************************************************)
GcmNonceSize == 12
GcmTagSize == 16
NoKey == -1

RECURSIVE SumBytes(_)
SumBytes(s) == IF s = <<>> THEN 0 ELSE Head(s) + SumBytes(Tail(s))

\* sha256.Sum256([]byte(token)) followed by aes.NewCipher and cipher.NewGCM:
\* the key is a hash of the token's bytes
RECURSIVE Sha256(_, _)
Sha256(s, h) == IF s = <<>> THEN h ELSE Sha256(Tail(s), (h * 31 + Head(s)) % 251)

initEncryption(token) == Sha256(token, 7)

GcmTag(key, nonce, ct) ==
    LET t == (key * 3 + SumBytes(nonce) + 7 * SumBytes(ct) + 1) % 256
    IN [j \in 1..GcmTagSize |-> (t + j) % 256]

GcmSeal(key, nonce, pt) ==
    LET ct == [i \in 1..Len(pt) |->
                 (pt[i] + key + nonce[((i - 1) % GcmNonceSize) + 1]) % 256]
    IN nonce \o ct \o GcmTag(key, nonce, ct)

\* gcm.Open(nil, nonce, ciphertext, nil): [ok, data]
GcmOpen(key, nonce, body) ==
    IF Len(body) < GcmTagSize THEN [ok |-> FALSE, data |-> <<>>]
    ELSE LET ct == SubSeq(body, 1, Len(body) - GcmTagSize)
             tag == SubSeq(body, Len(body) - GcmTagSize + 1, Len(body))
         IN IF tag # GcmTag(key, nonce, ct) THEN [ok |-> FALSE, data |-> <<>>]
            ELSE [ok |-> TRUE,
                  data |-> [i \in 1..Len(ct) |->
                     (ct[i] - key - nonce[((i - 1) % GcmNonceSize) + 1]) % 256]]

\* the nonces rand.Reader may produce (one value stands for all of them)
Nonces == { [i \in 1..GcmNonceSize |-> 160 + i] }

\* encrypt: [ok, out], out = base64(nonce || ciphertext)
encrypt(key, nonce, plaintext) ==
    IF key = NoKey THEN [ok |-> FALSE, out |-> <<>>]
    ELSE [ok |-> TRUE, out |-> B64Encode(GcmSeal(key, nonce, plaintext))]

\* decrypt: [ok, data]
decrypt(key, encoded) ==
    LET dec == B64Decode(encoded) IN
    IF key = NoKey THEN [ok |-> FALSE, data |-> <<>>]
    ELSE IF ~dec.ok THEN [ok |-> FALSE, data |-> <<>>]
    ELSE IF Len(dec.data) < GcmNonceSize THEN [ok |-> FALSE, data |-> <<>>]
    ELSE GcmOpen(key, SubSeq(dec.data, 1, GcmNonceSize),
                 SubSeq(dec.data, GcmNonceSize + 1, Len(dec.data)))

(***************************************************************************)
(* Program constants.  One clock unit is 30 seconds.                       *)
(***************************************************************************)
UploadTimeout == 10            \* 5 * time.Minute
\* the debounce of the switch to the PC, on its own clock of 50 ms
PCSwitchDelay == 2             \* 100 * time.Millisecond
UploadCleanupInterval == 2
\* the delays of the relay loop, in seconds
ReconnectDelay == 2
RelayConnectDelay == 5     \* 1 * time.Minute

(***************************************************************************)
(* State.                                                                  *)
(*   d    the fields of the Daemon struct (and the package variable        *)
(*        uploadCleanupStarted)                                            *)
(*   env  what the daemon acts on: the PTY, the socket, the file system,   *)
(*        the clock                                                        *)
(*   tk   the tasks: their positions, their locals and the goroutines      *)
(*        that were spawned and have not run yet                           *)
(***************************************************************************)
VARIABLES d, env, tk
vars == <<d, env, tk>>

World == [d |-> d, env |-> env, tk |-> tk]
Becomes(w) == d' = w.d /\ env' = w.env /\ tk' = w.tk

\* the empty map
EmptyMap == <<>>
MapPut(m, k, v) == (k :> v) @@ m
MapDel(m, k) == [j \in DOMAIN m \ {k} |-> m[j]]

(***************************************************************************)
(* Socket and PTY primitives.                                              *)
(***************************************************************************)
\* the one nonce the model draws
Nonce == CHOOSE n \in Nonces : TRUE

\* sendControlMessage: "\x00CTRL:" + msg, encrypted and written as a data
\* frame, but only while the relay and the mobile are connected
sendControlMessage(w, msg) ==
    LET conn == w.d.wsConn
        connected == w.d.mobileConnected /\ w.d.relayConnected
        ctrlData == <<0>> \o LitControl("CTRL:") \o msg
        enc == encrypt(w.d.aesGCM, Nonce, ctrlData)
        payload == IF enc.ok THEN enc.out ELSE B64Encode(ctrlData)
    IN IF connected /\ conn # 0
       THEN [w EXCEPT !.env.wsOut =
                Append(@, [sock |-> conn, type |-> "data", payload |-> payload])]
       ELSE w

\* sendToPTY: write under the PTY mutex when the PTY exists
sendToPTY(w, data) ==
    IF w.d.ptmx THEN [w EXCEPT !.env.ptyIn = @ \o data] ELSE w

(***************************************************************************)
(* Chunked upload reassembler.                                             *)
(***************************************************************************)
RECURSIVE TrimRightSlash(_)
TrimRightSlash(s) ==
    IF Len(s) > 0 /\ s[Len(s)] = 47 THEN TrimRightSlash(SubSeq(s, 1, Len(s) - 1)) ELSE s

RECURSIVE LastIndexByte(_, _, _)
LastIndexByte(s, c, i) ==
    IF i = 0 THEN 0 ELSE IF s[i] = c THEN i ELSE LastIndexByte(s, c, i - 1)

\* filepath.Base
Base(path) ==
    IF path = <<>> THEN <<46>>
    ELSE LET t == TrimRightSlash(path)
             i == LastIndexByte(t, 47, Len(t))
             u == SubSeq(t, i + 1, Len(t))
         IN IF u = <<>> THEN <<47>> ELSE u

\* a collector that removes every record, whatever its age
cleanupAbandonedUploads_all(w) == [w EXCEPT !.d.chunkedUploads = EmptyMap]

\* cleanupAbandonedUploads: drop the uploads idle for more than UploadTimeout
cleanupAbandonedUploads(w) ==
    LET ups == w.d.chunkedUploads
        keep == {id \in DOMAIN ups : ~(w.env.now - ups[id].ReceivedAt > UploadTimeout)}
    IN [w EXCEPT !.d.chunkedUploads = [id \in keep |-> ups[id]]]

\* a start handler that records the upload and answers nothing
handleChunkedUploadStart_silent(w, args) ==
    LET startParts == SplitN(args, Colon, 4) IN
    IF Len(startParts) = 4
    THEN [w EXCEPT !.d.chunkedUploads =
            MapPut(@, startParts[1],
                   [FileName |-> startParts[2],
                    TotalChunks |-> Sscanf(startParts[3]),
                    TotalSize |-> Sscanf(startParts[4]),
                    Chunks |-> EmptyMap,
                    ReceivedAt |-> w.env.now]),
                   !.d.uploadsMade = TRUE]
    ELSE w

\* handleChunkedUploadStart
handleChunkedUploadStart(w, args) ==
    LET startParts == SplitN(args, Colon, 4) IN
    IF Len(startParts) = 4
    THEN LET uploadId == startParts[1]
             rec == [FileName |-> startParts[2],
                     TotalChunks |-> Sscanf(startParts[3]),
                     TotalSize |-> Sscanf(startParts[4]),
                     Chunks |-> EmptyMap,
                     ReceivedAt |-> w.env.now]
             isNil == ~w.d.uploadsMade
             startGC == isNil /\ ~w.d.uploadCleanupStarted
             w1 == [w EXCEPT !.d.chunkedUploads = MapPut(@, uploadId, rec),
                             !.d.uploadsMade = TRUE,
                             !.d.uploadCleanupStarted = IF isNil THEN TRUE ELSE @,
                             !.tk.gcNext = IF startGC
                                           THEN w.env.now + UploadCleanupInterval
                                           ELSE @]
         IN sendControlMessage(w1, LitUpload("file-upload-ack:") \o uploadId \o LitUpload(":started"))
    ELSE w

\* a reassembly that walks the indices downwards and never reports a gap
Reassemble_descending(chunks, i, total) ==
    [ok |-> TRUE,
     data |-> Concat([k \in 1..total |->
                        IF total - k \in DOMAIN chunks THEN chunks[total - k] ELSE <<>>]),
     missing |-> 0]

\* the reassembly loop: [ok, data, missing]
RECURSIVE Reassemble(_, _, _)
Reassemble(chunks, i, total) ==
    IF i >= total THEN [ok |-> TRUE, data |-> <<>>, missing |-> 0]
    ELSE IF i \in DOMAIN chunks
         THEN LET r == Reassemble(chunks, i + 1, total)
              IN IF r.ok THEN [r EXCEPT !.data = chunks[i] \o @] ELSE r
         ELSE [ok |-> FALSE, data |-> <<>>, missing |-> i]

\* handleChunkedUploadChunk
handleChunkedUploadChunk(w, args) ==
    LET chunkParts == SplitN(args, Colon, 3) IN
    IF Len(chunkParts) = 3
    THEN LET uploadId == chunkParts[1]
             chunkIndex == Sscanf(chunkParts[2])
             dec == B64Decode(chunkParts[3])
         IN IF ~dec.ok
            THEN sendControlMessage(w, LitUpload("file-upload-result:") \o LitUpload("error:") \o LitUpload("Invalid chunk data for ") \o uploadId)
            ELSE IF uploadId \notin DOMAIN w.d.chunkedUploads
            THEN sendControlMessage(w, LitUpload("file-upload-result:") \o LitUpload("error:") \o LitUpload("Unknown upload ") \o uploadId)
            ELSE LET old == w.d.chunkedUploads[uploadId]
                     upload == [old EXCEPT !.Chunks = MapPut(@, chunkIndex, dec.data),
                                           !.ReceivedAt = w.env.now]
                     w1 == [w EXCEPT !.d.chunkedUploads[uploadId] = upload]
                 IN IF Cardinality(DOMAIN upload.Chunks) = upload.TotalChunks
                    THEN LET r == Reassemble(upload.Chunks, 0, upload.TotalChunks)
                         IN IF ~r.ok
                            THEN sendControlMessage(w1,
                                    LitUpload("file-upload-result:") \o LitUpload("error:") \o LitUpload("Missing chunk ")
                                    \o Itoa(r.missing) \o LitUpload(" for ") \o uploadId)
                            ELSE [w1 EXCEPT
                                    !.d.chunkedUploads = MapDel(@, uploadId),
                                    !.tk.saveTasks = Append(@,
                                        [kind |-> "bytes", name |-> upload.FileName,
                                         data |-> r.data])]
                    ELSE sendControlMessage(w1,
                            LitUpload("file-upload-ack:") \o uploadId \o <<Colon>> \o Itoa(chunkIndex))
    ELSE w

\* handleChunkedUploadCancel
handleChunkedUploadCancel(w, uploadId) ==
    IF uploadId \in DOMAIN w.d.chunkedUploads
    THEN sendControlMessage([w EXCEPT !.d.chunkedUploads = MapDel(@, uploadId)],
                            LitUpload("file-upload-ack:") \o uploadId \o LitUpload(":cancelled"))
    ELSE w

\* insertFileReference
insertFileReference(w, filePath) ==
    LET insertCmd == CASE w.d.agentType = "gemini" -> <<64>> \o filePath \o <<32>>
                       [] w.d.agentType = "codex" -> LitUpload("/mention ") \o filePath \o <<32>>
                       [] OTHER -> filePath \o <<32>>
    IN sendToPTY(w, insertCmd)

\* saveUploadedFileBytes; writeOk tells whether os.WriteFile succeeds
saveUploadedFileBytes(w, name, fileData, writeOk) ==
    LET fileName == Base(name)
        remotePath == LitUpload("/tmp") \o <<47>> \o LitUpload("aipilot_") \o Itoa(w.env.now)
                      \o <<95>> \o fileName
    IN IF fileName = <<>> \/ fileName = <<46>> \/ fileName = <<46, 46>>
       THEN sendControlMessage(w, LitUpload("file-upload-result:") \o LitUpload("error:") \o LitUpload("Invalid filename"))
       ELSE IF ~writeOk
       THEN sendControlMessage(w, LitUpload("file-upload-result:") \o LitUpload("error:") \o LitUpload("Failed to write file: ") \o LitUpload("EIO"))
       ELSE insertFileReference(
              sendControlMessage(
                [w EXCEPT !.env.files = Append(@, [path |-> remotePath, data |-> fileData])],
                LitUpload("file-upload-result:") \o LitUpload("success:") \o remotePath),
              remotePath)

\* saveUploadedFile
saveUploadedFile(w, fileName, fileBase64, writeOk) ==
    LET dec == B64Decode(fileBase64) IN
    IF ~dec.ok THEN sendControlMessage(w, LitUpload("file-upload-result:") \o LitUpload("error:") \o LitUpload("Invalid file encoding"))
    ELSE saveUploadedFileBytes(w, fileName, dec.data, writeOk)

(***************************************************************************)
(* Viewport multiplexer.  switchToClient runs in three sections: the       *)
(* check under the daemon lock, the resize under the PTY mutex, and the    *)
(* commit under the daemon lock.  A task in the middle of it is a record   *)
(* [pc, client, cols, rows, next].                                         *)
(***************************************************************************)
ToUint16(n) == n % 65536

Idle == [pc |-> "idle", client |-> "", cols |-> 0, rows |-> 0, next |-> "idle"]

\* a switchToClient without its "already on this client" test
switchBegin_always(w, client, next) ==
    LET cols == IF client = "mobile" THEN w.d.mobileCols ELSE w.d.pcCols
        rows == IF client = "mobile" THEN w.d.mobileRows ELSE w.d.pcRows
    IN IF cols <= 0 \/ rows <= 0 THEN [Idle EXCEPT !.pc = next]
       ELSE IF ~w.d.ptmx THEN [Idle EXCEPT !.pc = next]
       ELSE [pc |-> "sw_resize", client |-> client, cols |-> cols, rows |-> rows,
             next |-> next]

\* first section of switchToClient: the task that results, at "sw_resize"
\* when the switch goes on and at its continuation when it returns early
switchBegin(w, client, next) ==
    LET cols == IF client = "mobile" THEN w.d.mobileCols ELSE w.d.pcCols
        rows == IF client = "mobile" THEN w.d.mobileRows ELSE w.d.pcRows
    IN IF w.d.currentClient = client THEN [Idle EXCEPT !.pc = next]
       ELSE IF cols <= 0 \/ rows <= 0 THEN [Idle EXCEPT !.pc = next]
       ELSE IF ~w.d.ptmx THEN [Idle EXCEPT !.pc = next]
       ELSE [pc |-> "sw_resize", client |-> client, cols |-> cols, rows |-> rows,
             next |-> next]

\* resizePTY(rows, cols uint16): the ioctl under the PTY mutex
resizePTY(w, rows, cols) ==
    IF w.d.ptmx THEN [w EXCEPT !.env.ptyCols = cols, !.env.ptyRows = rows] ELSE w

\* a switchToClient that starts its goroutines without the commit
switchCommit_uncommitted(w, client) ==
    [w EXCEPT !.tk.nudges = IF client = "mobile" THEN @ + 1 ELSE @,
              !.tk.modeTasks = Append(@, client)]

\* third section of switchToClient: commit, then spawn the redraw and the
\* notification goroutines
switchCommit(w, client) ==
    [w EXCEPT !.d.currentClient = client,
              !.tk.nudges = IF client = "mobile" THEN @ + 1 ELSE @,
              !.tk.modeTasks = Append(@, client)]

\* handleResizeCommand up to its unlock; the reader goes on at "rz_apply"
\* (already on mobile) or at "sw_begin" (switch to mobile)
handleResizeCommand(w, args) ==
    LET dims == Split(args, Comma) IN
    IF Len(dims) = 2
    THEN LET cols == Sscanf(dims[1])
             rows == Sscanf(dims[2])
         IN IF cols > 0 /\ rows > 0
            THEN LET w1 == [w EXCEPT !.d.mobileCols = cols, !.d.mobileRows = rows]
                 IN IF ~w.d.ptmx THEN w1
                    ELSE IF w.d.currentClient = "mobile"
                    THEN [w1 EXCEPT !.tk.rd = [Idle EXCEPT !.pc = "rz_apply",
                                                 !.cols = cols, !.rows = rows,
                                                 !.next = "read"]]
                    ELSE [w1 EXCEPT !.tk.rd = [Idle EXCEPT !.pc = "sw_begin",
                                                 !.client = "mobile",
                                                 !.next = "read"]]
            ELSE w
    ELSE w


\* handleControlMessage: dispatch on the verb before the first colon
handleControlMessage(w, msg) ==
    LET parts == SplitN(msg, Colon, 2)
        cmd == parts[1]
        args == IF Len(parts) > 1 THEN parts[2] ELSE <<>>
    IN CASE cmd = LitControl("resize") -> handleResizeCommand(w, args)
         [] cmd = LitControl("info-request") -> sendControlMessage(w, LitControl("cli-info:{}"))
         [] cmd = LitControl("ssh-setup-key") ->
              LET keyParts == SplitN(args, Colon, 3) IN
              IF Len(keyParts) = 3
              THEN [w EXCEPT !.tk.saveTasks = Append(@,
                       [kind |-> "ssh", name |-> keyParts[1], data |-> keyParts[3]])]
              ELSE w
         [] cmd = LitControl("file-upload") ->
              LET fileParts == SplitN(args, Colon, 2) IN
              IF Len(fileParts) = 2
              THEN [w EXCEPT !.tk.saveTasks = Append(@,
                       [kind |-> "b64", name |-> fileParts[1], data |-> fileParts[2]])]
              ELSE sendControlMessage(w, LitUpload("file-upload-result:") \o LitUpload("error:") \o LitControl("Invalid file upload format"))
         [] cmd = LitControl("file-upload-start") -> handleChunkedUploadStart(w, args)
         [] cmd = LitControl("file-upload-chunk") -> handleChunkedUploadChunk(w, args)
         [] cmd = LitControl("file-upload-cancel") -> handleChunkedUploadCancel(w, args)
         [] OTHER -> w

\* the test that tells a control frame from terminal bytes
IsControlFrame(data) ==
    Len(data) > 6 /\ data[1] = 0 /\ SubSeq(data, 2, 6) = LitControl("CTRL:")

\* the "data" case of handleWebSocketMessages up to the first unlock
handleData(w, payload) ==
    LET dec == decrypt(w.d.aesGCM, payload)
        fb == B64Decode(payload)
        data == IF dec.ok THEN dec.data ELSE fb.data
        w1 == [w EXCEPT !.d.mobileConnected = TRUE]
    IN IF ~dec.ok /\ ~fb.ok THEN w
       ELSE IF IsControlFrame(data)
       THEN handleControlMessage(w1, SubSeq(data, 7, Len(data)))
       ELSE [w1 EXCEPT !.tk.rd = switchBegin(w1, "mobile", "write"),
                       !.tk.rdData = data]

\* one pass of the read loop of handleWebSocketMessages
handleWebSocketMessage(w, msg) ==
    CASE msg.type = "data" -> handleData(w, msg.payload)
      [] msg.type = "connected" ->
           IF msg.role = "mobile" THEN [w EXCEPT !.d.mobileConnected = TRUE] ELSE w
      [] msg.type = "disconnected" -> [w EXCEPT !.d.mobileConnected = FALSE]
      [] OTHER -> w

(***************************************************************************)
(* Meta-commands (commands.go).                                            *)
(***************************************************************************)
ToLower(s) == [i \in 1..Len(s) |-> IF s[i] >= 65 /\ s[i] <= 90 THEN s[i] + 32 ELSE s[i]]

RECURSIVE TrimLeft(_)
TrimLeft(s) == IF s # <<>> /\ IsSpace(Head(s)) THEN TrimLeft(Tail(s)) ELSE s
RECURSIVE TrimRight(_)
TrimRight(s) ==
    IF s # <<>> /\ IsSpace(s[Len(s)]) THEN TrimRight(SubSeq(s, 1, Len(s) - 1)) ELSE s
TrimSpace(s) == TrimRight(TrimLeft(s))


\* getAIPilotCommand: the command a line names, "" when it names none
getAIPilotCommand(line) ==
    CASE line = LitCommand("//qr") -> "qr"
      [] line = LitCommand("//qr-image") -> "qr-image"
      [] line = LitCommand("//status") -> "status"
      [] line = LitCommand("//disconnect") -> "disconnect"
      [] line = LitCommand("//purge") -> "purge"
      [] line = LitCommand("//quit") -> "quit"
      [] OTHER -> ""

\* disconnectMobile: kick the mobile and mark it disconnected
disconnectMobile(w) ==
    IF ~w.d.mobileConnected THEN w
    ELSE IF w.d.wsConn # 0
    THEN [w EXCEPT !.env.wsOut = Append(@, [sock |-> w.d.wsConn, type |-> "kick",
                                              payload |-> <<>>]),
                   !.d.mobileConnected = FALSE]
    ELSE w

\* the QR screen of showPairingQRInAltScreen: where the call is, which loop
\* made it, the shouldExit flag, the exitRequested channel and the key
\* goroutine with the byte it holds
NoQR ==
    [pc |-> "closed", caller |-> "", shouldExit |-> FALSE,
     exitRequested |-> FALSE, keyPc |-> "none", key |-> 0]

\* the call starts; one screen is modelled at a time
showPairingQRInAltScreen(w) ==
    IF w.tk.qr.pc = "closed" /\ w.tk.qr.keyPc = "none"
    THEN [w EXCEPT !.tk.qr = [NoQR EXCEPT !.pc = "ctrlc"]]
    ELSE w

\* the loop that called executeAIPilotCommand waits for the screen to close
calledBy(before, after, loop) ==
    IF before.tk.qr.pc = "closed" /\ after.tk.qr.pc # "closed"
    THEN [after EXCEPT !.tk.qr.caller = loop]
    ELSE after

\* executeAIPilotCommand; "quit" is os.Exit(0): the process ends at once and
\* no deferred function runs
executeAIPilotCommand(w, cmd) ==
    LET w0 == [w EXCEPT !.env.executed = Append(@, cmd)] IN
    CASE cmd = "qr" -> showPairingQRInAltScreen(w0)
      [] cmd = "disconnect" -> disconnectMobile(w0)
      [] cmd = "purge" -> [w0 EXCEPT !.env.relaySessions = {}]
      [] cmd = "quit" -> [w0 EXCEPT !.env.proc = "exited"]
      [] OTHER -> w0

(***************************************************************************)
(* The WebSocket reader task.                                              *)
(***************************************************************************)
\* a mobile interceptor that sends the Enter after the Ctrl+U
mobileByte_sendsEnter(w, char) ==
    LET buf == w.d.mobileLineBuf IN
    IF char = 13 \/ char = 10
    THEN LET aipilotCmd == getAIPilotCommand(TrimSpace(ToLower(buf))) IN
         IF aipilotCmd # ""
         THEN [calledBy(w, executeAIPilotCommand(sendToPTY(w, <<21, char>>),
                                                  aipilotCmd), "mobile")
                 EXCEPT !.d.mobileLineBuf = <<>>]
         ELSE [sendToPTY(w, <<char>>) EXCEPT !.d.mobileLineBuf = <<>>]
    ELSE IF char >= 32 /\ char < 127
    THEN [sendToPTY(w, <<char>>) EXCEPT !.d.mobileLineBuf = Append(buf, char)]
    ELSE sendToPTY(w, <<char>>)

\* one byte of the mobile line interceptor (the loop over data)
mobileByte(w, char) ==
    LET buf == w.d.mobileLineBuf IN
    IF char = 13 \/ char = 10
    THEN LET aipilotCmd == getAIPilotCommand(TrimSpace(ToLower(buf))) IN
         IF aipilotCmd # ""
         THEN [calledBy(w, executeAIPilotCommand(sendToPTY(w, <<21>>), aipilotCmd),
                        "mobile")
                 EXCEPT !.d.mobileLineBuf = <<>>]
         ELSE [sendToPTY(w, <<char>>) EXCEPT !.d.mobileLineBuf = <<>>]
    ELSE IF char = 127 \/ char = 8
    THEN [sendToPTY(w, <<char>>) EXCEPT
            !.d.mobileLineBuf = IF Len(buf) > 0 THEN SubSeq(buf, 1, Len(buf) - 1) ELSE buf]
    ELSE IF char = 3
    THEN [sendToPTY(w, <<char>>) EXCEPT !.d.mobileLineBuf = <<>>]
    ELSE IF char >= 32 /\ char < 127
    THEN [sendToPTY(w, <<char>>) EXCEPT !.d.mobileLineBuf = Append(buf, char)]
    ELSE sendToPTY(w, <<char>>)

Running == env.proc = "running"
InQRScreen(loop) == tk.qr.pc # "closed" /\ tk.qr.caller = loop
Reading == Running /\ tk.pc = "reading" /\ ~InQRScreen("mobile")

\* the reader takes the next frame off the socket
ReadFrom(frames, max) ==
    /\ Reading /\ tk.rd.pc = "read"
    /\ tk.nFrames < max
    /\ \E msg \in frames :
         Becomes(handleWebSocketMessage(
                   [World EXCEPT !.tk.nFrames = @ + 1, !.tk.rdMsg = msg], msg))

ReaderSwitchBegin ==
    /\ Reading /\ tk.rd.pc = "sw_begin"
    /\ Becomes([World EXCEPT !.tk.rd = switchBegin(World, tk.rd.client, tk.rd.next)])

ReaderSwitchResize ==
    /\ Reading /\ tk.rd.pc = "sw_resize"
    /\ Becomes([resizePTY(World, ToUint16(tk.rd.rows), ToUint16(tk.rd.cols))
                  EXCEPT !.tk.rd.pc = "sw_commit"])

ReaderSwitchCommit ==
    /\ Reading /\ tk.rd.pc = "sw_commit"
    /\ Becomes([switchCommit(World, tk.rd.client)
                  EXCEPT !.tk.rd = [Idle EXCEPT !.pc = tk.rd.next]])

\* handleResizeCommand when already on mobile: resize, then spawn the redraw
ReaderResizeApply ==
    /\ Reading /\ tk.rd.pc = "rz_apply"
    /\ Becomes([resizePTY(World, ToUint16(tk.rd.rows), ToUint16(tk.rd.cols))
                  EXCEPT !.tk.rd = [Idle EXCEPT !.pc = "read"],
                         !.tk.nudges = @ + 1])

ReaderWrite ==
    /\ Reading /\ tk.rd.pc = "write"
    /\ IF tk.rdData = <<>>
       THEN Becomes([World EXCEPT !.tk.rd = [Idle EXCEPT !.pc = "read"]])
       ELSE Becomes(mobileByte([World EXCEPT !.tk.rdData = Tail(@)], Head(tk.rdData)))

(***************************************************************************)
(* Goroutines spawned by the handlers.                                     *)
(***************************************************************************)
RemoveAt(s, i) == SubSeq(s, 1, i - 1) \o SubSeq(s, i + 1, Len(s))

\* go d.saveUploadedFileBytes(...) and go d.saveUploadedFile(...)
SaveTask ==
    /\ Running
    /\ \E i \in 1..Len(tk.saveTasks) : \E writeOk \in BOOLEAN :
         LET t == tk.saveTasks[i]
             w == [World EXCEPT !.tk.saveTasks = RemoveAt(@, i)]
         IN /\ t.kind \in {"bytes", "b64"}
            /\ Becomes(IF t.kind = "bytes"
                       THEN saveUploadedFileBytes(w, t.name, t.data, writeOk)
                       ELSE saveUploadedFile(w, t.name, t.data, writeOk))

\* the redraw goroutine: Ctrl+L after 50 ms
Nudge ==
    /\ Running /\ tk.nudges > 0
    /\ Becomes(sendToPTY([World EXCEPT !.tk.nudges = @ - 1], <<12>>))

\* a notification goroutine that ends without sending
ModeNotify_silent ==
    /\ Running
    /\ \E i \in 1..Len(tk.modeTasks) :
         Becomes([World EXCEPT !.tk.modeTasks = RemoveAt(@, i)])

\* the notification goroutine: "mode:<client>"
ModeNotify ==
    /\ Running
    /\ \E i \in 1..Len(tk.modeTasks) :
         Becomes(sendControlMessage([World EXCEPT !.tk.modeTasks = RemoveAt(@, i)],
                                    LitViewport("mode:") \o (IF tk.modeTasks[i] = "mobile"
                                               THEN LitViewport("mobile") ELSE LitViewport("pc"))))

\* the cleanup goroutine's ticker fires
UploadGC ==
    /\ Running /\ d.uploadCleanupStarted
    /\ env.now = tk.gcNext
    /\ Becomes(cleanupAbandonedUploads(
                 [World EXCEPT !.tk.gcNext = @ + UploadCleanupInterval]))

\* time passes; a ticker that is due fires before the clock moves on
Tick ==
    /\ Running /\ env.now < MaxTime
    /\ d.uploadCleanupStarted => env.now < tk.gcNext
    /\ env' = [env EXCEPT !.now = @ + 1]
    /\ UNCHANGED <<d, tk>>

(***************************************************************************)
(* The PC side: keyboard, debounce timer, window-change signal.            *)
(***************************************************************************)
\* a schedulePCSwitch that arms nothing
schedulePCSwitch_unarmed(w) == w

\* Timer.Stop on the timer d.pcSwitchTimer points to, the last one created:
\* a timer that has not fired will not fire
Stop(timers) ==
    IF timers # <<>> /\ timers[Len(timers)].st = "armed"
    THEN [timers EXCEPT ![Len(timers)].st = "stopped"] ELSE timers

\* time.AfterFunc(100 ms, switchToClient("pc"))
AfterFunc(timers) == Append(timers, [left |-> PCSwitchDelay, st |-> "armed"])

\* schedulePCSwitch: re-arm the 100 ms timer unless already on the PC
schedulePCSwitch(w) ==
    IF w.d.currentClient = "pc" THEN w
    ELSE [w EXCEPT !.d.pcSwitchTimer = "armed", !.tk.timers = AfterFunc(Stop(@))]

IsLetter(c) == (c >= 65 /\ c <= 90) \/ (c >= 97 /\ c <= 122)

\* one pass of the stdin loop of main
stdinByte(w, char) ==
    LET lineBuf == w.tk.lineBuf IN
    IF char = 27
    THEN sendToPTY([w EXCEPT !.tk.inEscapeSeq = TRUE], <<char>>)
    ELSE IF w.tk.inEscapeSeq
    THEN sendToPTY([w EXCEPT !.tk.inEscapeSeq =
                       IF IsLetter(char) \/ char = 126 THEN FALSE ELSE @],
                   <<char>>)
    ELSE IF char >= 32 /\ char < 127
    THEN schedulePCSwitch(sendToPTY([w EXCEPT !.tk.lineBuf = Append(@, char)],
                                    <<char>>))
    ELSE IF char = 13 \/ char = 10
    THEN LET aipilotCmd == getAIPilotCommand(TrimSpace(ToLower(lineBuf))) IN
         IF aipilotCmd # ""
         THEN LET w1 == sendToPTY(w, <<21>>)
                  w2 == [w1 EXCEPT !.env.termRaw = FALSE]
                  w3 == calledBy(w, executeAIPilotCommand(w2, aipilotCmd), "pc")
              IN [w3 EXCEPT !.env.termRaw = IF w3.env.proc = "running" THEN TRUE ELSE @,
                            !.tk.lineBuf = <<>>]
         ELSE [sendToPTY(w, <<char>>) EXCEPT !.tk.lineBuf = <<>>]
    ELSE IF char = 127 \/ char = 8
    THEN sendToPTY([w EXCEPT !.tk.lineBuf =
                       IF Len(@) > 0 THEN SubSeq(@, 1, Len(@) - 1) ELSE @],
                   <<char>>)
    ELSE IF char = 3 \/ char = 21
    THEN sendToPTY([w EXCEPT !.tk.lineBuf = <<>>], <<char>>)
    ELSE sendToPTY(w, <<char>>)

\* the stdin goroutine reads one byte typed on the PC
StdinFrom(keys, max) ==
    /\ Running /\ tk.nKeys < max /\ ~InQRScreen("pc")
    /\ \E char \in keys :
         Becomes(stdinByte([World EXCEPT !.tk.nKeys = @ + 1], char))

(***************************************************************************)
(* PTY output: the reader goroutine of main, sendToMobile and the socket's *)
(* write mutex.  A send has three steps: the connection check under d.mu,  *)
(* the lock of wsMu, and WriteJSON followed by the unlock.                 *)
(***************************************************************************)
\* a call of sendToMobile or sendControlMessage: where it is, its plaintext
\* and the frame it built
NoSend ==
    [pc |-> "idle", plain |-> <<>>,
     frame |-> [sock |-> 0, type |-> "", payload |-> <<>>]]

\* os.Stdout.Write with a short write
stdoutWrite_short(w, buf) ==
    [w EXCEPT !.env.stdout = @ \o SubSeq(buf, 1, Len(buf) - 1)]

\* os.Stdout.Write(buf[:n])
stdoutWrite(w, buf) == [w EXCEPT !.env.stdout = @ \o buf]

\* a mutex that never blocks
wsMuFree_unlocked(w) == TRUE

\* d.wsMu.Lock() returns when no other task holds the mutex
wsMuFree(w) == w.env.wsMu = ""

\* n, err := ptmx.Read(buf): the next bytes of the agent's output
PtyRead ==
    /\ Running /\ tk.pr.pc = "read" /\ tk.pr.nRead < Len(env.ptyOut)
    /\ \E n \in 1..MaxChunk :
         /\ tk.pr.nRead + n <= Len(env.ptyOut)
         /\ Becomes([World EXCEPT
                       !.tk.pr = [pc |-> "stdout",
                                  buf |-> SubSeq(env.ptyOut, tk.pr.nRead + 1,
                                                 tk.pr.nRead + n),
                                  nRead |-> tk.pr.nRead + n]])

\* os.Stdout.Write, then the call of sendToMobile
PtyStdout ==
    /\ Running /\ tk.pr.pc = "stdout"
    /\ Becomes([stdoutWrite(World, tk.pr.buf) EXCEPT
                  !.tk.pr.pc = "send",
                  !.tk.snd.pty = [NoSend EXCEPT !.pc = "check", !.plain = tk.pr.buf]])

\* the notification goroutine of switchToClient calls sendControlMessage
ModeStart ==
    /\ Running /\ tk.snd.mode.pc = "idle"
    /\ \E i \in 1..Len(tk.modeTasks) :
         Becomes([World EXCEPT
                   !.tk.modeTasks = RemoveAt(@, i),
                   !.tk.snd.mode =
                       [NoSend EXCEPT
                          !.pc = "check",
                          !.plain = <<0>> \o LitControl("CTRL:") \o LitViewport("mode:")
                                      \o (IF tk.modeTasks[i] = "mobile"
                                          THEN LitViewport("mobile")
                                          ELSE LitViewport("pc"))]])

\* the call is over; the PTY reader goes back to its Read
sendReturns(w, task) ==
    [w EXCEPT !.tk.snd[task] = NoSend,
              !.tk.pr.pc = IF task = "pty" THEN "read" ELSE @]

\* conn and connected are read under d.mu; when connected the frame is built
SendCheck(task) ==
    /\ Running /\ tk.snd[task].pc = "check"
    /\ LET conn == d.wsConn
           connected == d.mobileConnected /\ d.relayConnected
           enc == encrypt(d.aesGCM, Nonce, tk.snd[task].plain)
           payload == IF enc.ok THEN enc.out ELSE B64Encode(tk.snd[task].plain)
       IN IF connected /\ conn # 0
          THEN Becomes([World EXCEPT
                          !.tk.snd[task].pc = "lock",
                          !.tk.snd[task].frame =
                              [sock |-> conn, type |-> "data", payload |-> payload]])
          ELSE Becomes(sendReturns(World, task))

\* d.wsMu.Lock()
SendLock(task) ==
    /\ Running /\ tk.snd[task].pc = "lock" /\ wsMuFree(World)
    /\ Becomes([World EXCEPT !.env.wsMu = task,
                             !.env.wsLog = Append(@, tk.snd[task].frame),
                             !.tk.snd[task].pc = "write"])

\* conn.WriteJSON(msg); d.wsMu.Unlock()
SendWrite(task) ==
    /\ Running /\ tk.snd[task].pc = "write"
    /\ Becomes(sendReturns([World EXCEPT
                              !.env.wsOut = Append(@, tk.snd[task].frame),
                              !.env.wsMu = IF @ = task THEN "" ELSE @],
                           task))

\* showPairingQRInAltScreen: Ctrl+C, then Ctrl+L, then the screen is shown
\* and the key goroutine starts
QRCtrlC ==
    /\ Running /\ tk.qr.pc = "ctrlc"
    /\ Becomes([sendToPTY(World, <<3>>) EXCEPT !.tk.qr.pc = "ctrll"])

QRCtrlL ==
    /\ Running /\ tk.qr.pc = "ctrll"
    /\ Becomes([sendToPTY(World, <<12>>) EXCEPT !.tk.qr.pc = "open",
                                                !.tk.qr.keyPc = "read"])

\* the key goroutine's os.Stdin.Read takes the next byte of the terminal
QRKeyRead ==
    /\ Running /\ tk.qr.keyPc = "read" /\ tk.nKeys < Len(tk.script)
    /\ Becomes([World EXCEPT !.tk.nKeys = @ + 1,
                             !.tk.qr.key = tk.script[tk.nKeys + 1],
                             !.tk.qr.keyPc = "got"])

\* ... and then forwards it, asks for the exit, or ignores it
QRKeyHandle ==
    /\ Running /\ tk.qr.keyPc = "got"
    /\ IF tk.qr.shouldExit
       THEN Becomes([sendToPTY(World, <<tk.qr.key>>) EXCEPT !.tk.qr.keyPc = "none"])
       ELSE IF tk.qr.key = 27 \/ tk.qr.key = 3
       THEN Becomes([World EXCEPT !.tk.qr.exitRequested = TRUE,
                                  !.tk.qr.keyPc = "none"])
       ELSE Becomes([World EXCEPT !.tk.qr.keyPc = "read"])

\* the select: the exit key was pressed
QRExitRequested ==
    /\ Running /\ tk.qr.pc = "open" /\ tk.qr.exitRequested
    /\ Becomes([World EXCEPT !.tk.qr.pc = "closing"])

\* the select: the pairing completed (onComplete of showPairingQRRaw)
QRPairingDone ==
    /\ Running /\ tk.qr.pc = "open"
    /\ Becomes([World EXCEPT !.tk.qr.pc = "closing"])

\* shouldExit is stored and the call returns to its loop
QRClose ==
    /\ Running /\ tk.qr.pc = "closing"
    /\ Becomes([World EXCEPT !.tk.qr.pc = "closed", !.tk.qr.shouldExit = TRUE])

\* the debounce timer expires and its callback starts switchToClient("pc")
TimerFires(i) ==
    /\ tk.timers[i].st = "armed"
    /\ Becomes([World EXCEPT
                  !.d.pcSwitchTimer = IF i = Len(tk.timers) THEN "fired" ELSE @,
                  !.tk.timers[i].st = "fired",
                  !.tk.cbs = Append(@, [Idle EXCEPT !.pc = "sw_begin",
                                                   !.client = "pc",
                                                   !.next = "done"])])

\* a timer that was not stopped runs its function in a goroutine of its
\* own (the moment is left open)
TimerFire ==
    /\ Running
    /\ \E i \in 1..Len(tk.timers) : TimerFires(i)

\* the three sections of switchToClient run by a timer callback
CallbackBegin ==
    /\ Running
    /\ \E i \in 1..Len(tk.cbs) :
         /\ tk.cbs[i].pc = "sw_begin"
         /\ LET t == switchBegin(World, "pc", "done") IN
            Becomes([World EXCEPT !.tk.cbs = IF t.pc = "done" THEN RemoveAt(@, i)
                                             ELSE [@ EXCEPT ![i] = t]])

CallbackResize ==
    /\ Running
    /\ \E i \in 1..Len(tk.cbs) :
         /\ tk.cbs[i].pc = "sw_resize"
         /\ Becomes([resizePTY(World, ToUint16(tk.cbs[i].rows), ToUint16(tk.cbs[i].cols))
                       EXCEPT !.tk.cbs[i].pc = "sw_commit"])

CallbackCommit ==
    /\ Running
    /\ \E i \in 1..Len(tk.cbs) :
         /\ tk.cbs[i].pc = "sw_commit"
         /\ Becomes([switchCommit(World, "pc") EXCEPT !.tk.cbs = RemoveAt(@, i)])

\* the SIGWINCH goroutine of main: term.GetSize reports (width, height)
SigwinchTo(sizes) ==
    /\ Running /\ tk.nSignals < MaxSignals
    /\ \E sz \in sizes :
         LET width == sz[1]
             height == sz[2]
             onPC == d.currentClient = "pc" \/ d.currentClient = ""
             w1 == [World EXCEPT !.tk.nSignals = @ + 1]
         IN IF width > 0 /\ height > 0
            THEN Becomes([w1 EXCEPT
                   !.d.pcCols = width, !.d.pcRows = height,
                   !.env.ptyCols = IF onPC /\ d.ptmx THEN ToUint16(width) ELSE @,
                   !.env.ptyRows = IF onPC /\ d.ptmx THEN ToUint16(height) ELSE @,
                   !.d.currentClient = IF onPC THEN "pc" ELSE @])
            ELSE Becomes(w1)

(***************************************************************************)
(* The pairing store (PCConfig.PairedMobiles) and the two tasks of the     *)
(* daemon that add to it: the WebSocket reader on a mobile_paired frame    *)
(* and the pairing poll on a completed status.  The store has no lock;     *)
(* addPairedMobile is a scan of the list followed, when no entry matched,  *)
(* by an append to the list as it is then.                                 *)
(***************************************************************************)
NoMobile == [ID |-> <<>>, PublicKey |-> <<>>]

\* getPairedMobile and the loop of addPairedMobile: the index of the first
\* entry with the id, 0 when there is none
RECURSIVE IndexOfMobile(_, _, _)
IndexOfMobile(list, id, i) ==
    IF i > Len(list) THEN 0
    ELSE IF list[i].ID = id THEN i
    ELSE IndexOfMobile(list, id, i + 1)

\* addPairedMobile run without interference: replace or append
addPairedMobile(list, mobile) ==
    LET i == IndexOfMobile(list, mobile.ID, 1) IN
    IF i # 0 THEN [list EXCEPT ![i] = mobile] ELSE Append(list, mobile)

\* removePairedMobile: the list without the first entry with the id
removePairedMobile(list, mobileID) ==
    LET i == IndexOfMobile(list, mobileID, 1) IN
    IF i # 0 THEN SubSeq(list, 1, i - 1) \o SubSeq(list, i + 1, Len(list)) ELSE list

\* the loop of addPairedMobile as a task runs it: an entry with the id is
\* replaced at once, otherwise the task goes on to its append
addScan(w, mobile, task, found, missing) ==
    LET i == IndexOfMobile(w.d.pairedMobiles, mobile.ID, 1) IN
    IF i # 0
    THEN [w EXCEPT !.d.pairedMobiles[i] = mobile, !.tk[task].pc = found]
    ELSE [w EXCEPT !.tk[task].pc = missing]

\* the "mobile_paired" case of handleWebSocketMessages
ReadPaired(mobiles) ==
    /\ Reading /\ tk.rd.pc = "read"
    /\ tk.nFrames < MaxPairFrames
    /\ \E mobile \in mobiles :
         LET w1 == [World EXCEPT !.tk.nFrames = @ + 1] IN
         IF mobile.ID # <<>> /\ mobile.PublicKey # <<>>
         THEN Becomes([w1 EXCEPT !.tk.rd.pc = "pair_scan", !.tk.rdMobile = mobile])
         ELSE Becomes(w1)

ReaderPairScan ==
    /\ Reading /\ tk.rd.pc = "pair_scan"
    /\ Becomes(addScan(World, tk.rdMobile, "rd", "pair_share", "pair_append"))

ReaderPairAppend ==
    /\ Reading /\ tk.rd.pc = "pair_append"
    /\ Becomes([World EXCEPT !.d.pairedMobiles = Append(@, tk.rdMobile),
                             !.tk.rd.pc = "pair_share"])

\* savePCConfig and addTokenForMobile, then the next frame
ReaderPairShare ==
    /\ Reading /\ tk.rd.pc = "pair_share"
    /\ Becomes([World EXCEPT !.tk.rd.pc = "read", !.tk.rdMobile = NoMobile])

\* the pairing command has obtained a pairing token and starts the poll
\* goroutine: a ticker of PairingPollInterval, a timeout of PairingTimeout
NoPoll == [pc |-> "none", mobile |-> NoMobile, timeout |-> FALSE, nPolls |-> 0,
           status |-> "", left |-> ""]

PairingStart ==
    /\ Running /\ tk.poll.pc = "none"
    /\ Becomes([World EXCEPT !.tk.poll.pc = "select"])

\* PairingTimeout has passed: the timeout channel is ready from now on
PollDeadline ==
    /\ Running /\ tk.poll.pc \notin {"none", "done"} /\ ~tk.poll.timeout
    /\ Becomes([World EXCEPT !.tk.poll.timeout = TRUE])

\* select takes the timeout case: return
PollTimeout ==
    /\ Running /\ tk.poll.pc = "select" /\ tk.poll.timeout
    /\ Becomes([World EXCEPT !.tk.poll.pc = "done", !.tk.poll.left = "timeout"])

\* a status that ends the poll without the pairing having been completed
PollEnds_never(status) == FALSE

PollEnds(status) == status = "expired"

\* select takes the ticker case: CheckPairingStatus fails ("error") or
\* answers with a status
PollTick(mobiles) ==
    /\ Running /\ tk.poll.pc = "select"
    /\ tk.poll.nPolls < MaxPolls
    /\ \E status \in {"error", "pending", "completed", "expired"} :
       \E mobile \in mobiles :
         LET w1 == [World EXCEPT !.tk.poll.nPolls = @ + 1,
                                 !.tk.poll.status = status] IN
         IF status = "completed"
         THEN Becomes([w1 EXCEPT !.tk.poll.pc = "scan", !.tk.poll.mobile = mobile])
         ELSE IF PollEnds(status)
         THEN Becomes([w1 EXCEPT !.tk.poll.pc = "done", !.tk.poll.left = status])
         ELSE Becomes(w1)

PollScan ==
    /\ Running /\ tk.poll.pc = "scan"
    /\ Becomes(addScan(World, tk.poll.mobile, "poll", "share", "append"))

PollAppend ==
    /\ Running /\ tk.poll.pc = "append"
    /\ Becomes([World EXCEPT !.d.pairedMobiles = Append(@, tk.poll.mobile),
                             !.tk.poll.pc = "share"])

\* savePCConfig, addTokenForMobile and the notification, then return
PollShare ==
    /\ Running /\ tk.poll.pc = "share"
    /\ Becomes([World EXCEPT !.tk.poll.pc = "done", !.tk.poll.left = "completed"])

(***************************************************************************)
(* The relay loop (connectToRelay).                                        *)
(***************************************************************************)
\* session ids and tokens the relay client obtains: "s1", "s2", ... and
\* "t1", "t2", ...
SessionId(i) == <<115, 48 + i>>
TokenOf(i) == <<116, 48 + i>>

\* what the relay and the network see of the loop, in order
Event(ev, w) ==
    [ev |-> ev, session |-> w.d.session, token |-> w.d.token, key |-> w.d.aesGCM]
Logged(w, ev) == [w EXCEPT !.env.relayLog = Append(@, Event(ev, w))]

\* a return where the loop sleeps and continues
Sleep_return(w, delay, next) == [w EXCEPT !.tk.pc = "returned"]

\* time.Sleep(delay), after which the loop goes on at next
Sleep(w, delay, next) ==
    [w EXCEPT !.tk.pc = "sleep", !.tk.sleepFor = delay, !.tk.sleepNext = next]

\* a session re-creation that takes the new session and token but keeps the
\* old cipher
recreateSession_staleKey(w, sessionResp) ==
    [w EXCEPT !.d.session = sessionResp.SessionID,
              !.d.token = sessionResp.Token,
              !.env.relaySessions = @ \cup {sessionResp.SessionID}]

\* recreateSession once CreateSession has answered with sessionResp
recreateSession(w, sessionResp) ==
    [w EXCEPT !.d.session = sessionResp.SessionID,
              !.d.token = sessionResp.Token,
              !.d.aesGCM = initEncryption(sessionResp.Token),
              !.env.relaySessions = @ \cup {sessionResp.SessionID}]

\* a loop head that creates a session before every dial
RelayTop_recreates ==
    /\ Running /\ tk.pc = "top"
    /\ Becomes([World EXCEPT !.tk.wasConnected = FALSE, !.tk.pc = "recreate"])

\* top of the outer loop
RelayTop ==
    /\ Running /\ tk.pc = "top"
    /\ Becomes([World EXCEPT !.tk.wasConnected = FALSE,
                             !.tk.pc = IF tk.wasConnected THEN "recreate" ELSE "dial"])

\* the inner loop: one call of recreateSession, which fails or succeeds
RelayRecreate ==
    /\ Running /\ tk.pc = "recreate"
    /\ tk.nCreates < MaxSessions
    /\ \E ok \in BOOLEAN :
         LET n == tk.nCreates + 1
             w1 == [World EXCEPT !.tk.nCreates = n]
             resp == [SessionID |-> SessionId(n + 1), Token |-> TokenOf(n + 1)]
         IN IF ok
            THEN Becomes(Logged([recreateSession(w1, resp) EXCEPT !.tk.pc = "dial"],
                                "create"))
            ELSE Becomes(Sleep(Logged(w1, "createFail"), RelayConnectDelay, "recreate"))

\* websocket dial of /ws/<session>
RelayDial ==
    /\ Running /\ tk.pc = "dial"
    /\ tk.nDials < MaxDials
    /\ \E ok \in BOOLEAN :
         LET n == tk.nDials + 1
             w1 == Logged([World EXCEPT !.tk.nDials = n], "dial")
         IN IF ok
            THEN Becomes([w1 EXCEPT !.tk.conn = n, !.tk.first = "",
                                    !.env.opened = @ \cup {n},
                                    !.tk.pc = "handshake"])
            ELSE Becomes(Sleep([w1 EXCEPT !.d.relayConnected = FALSE],
                               RelayConnectDelay, "top"))

\* what the relay may answer first on a socket: it registers a bridge only
\* on a session it holds
FirstFrames ==
    IF d.session \in env.relaySessions THEN {"error", "other", "registered"}
    ELSE {"error", "other"}

\* a registration that takes any first frame for "registered"
registered_any(response) == TRUE

\* the test of the first frame: conn.ReadJSON succeeded and the type is
\* "registered"
registered(response) == response = "registered"

\* the ping goroutine started for a socket, waiting in its select
PingStarted(conn) == [by |-> conn, pc |-> "select", c |-> 0]

\* the first message on the new socket ("error": ReadJSON fails); after a
\* registration the ping goroutine is started and the loop goes on as the
\* reader of the socket
RelayHandshake ==
    /\ Running /\ tk.pc = "handshake"
    /\ \E response \in FirstFrames :
         LET w1 == [World EXCEPT !.tk.first = response] IN
         IF registered(response)
         THEN Becomes([w1 EXCEPT !.tk.wasConnected = TRUE,
                                 !.tk.ping = tk.conn,
                                 !.tk.pings = Append(@, PingStarted(tk.conn)),
                                 !.d.wsConn = tk.conn,
                                 !.d.relayConnected = TRUE,
                                 !.tk.pc = "reading",
                                 !.tk.rd = [Idle EXCEPT !.pc = "read"]])
         ELSE Becomes(Sleep([w1 EXCEPT !.env.closed = @ \cup {tk.conn}],
                            RelayConnectDelay, "top"))

\* ReadJSON fails: handleWebSocketMessages returns; the relay may forget
\* the session of a bridge that went away
SocketLost ==
    /\ Reading /\ tk.rd.pc = "read"
    /\ \E discard \in BOOLEAN :
         Becomes(Logged([World EXCEPT
                           !.tk.pc = "teardown",
                           !.tk.rd = Idle,
                           !.env.relaySessions =
                               IF discard THEN @ \ {d.session} ELSE @],
                        "lost"))

\* after handleWebSocketMessages has returned
RelayTeardown ==
    /\ Running /\ tk.pc = "teardown"
    /\ Becomes(Sleep([World EXCEPT !.tk.ping = 0,
                                   !.d.wsConn = 0,
                                   !.d.relayConnected = FALSE,
                                   !.d.mobileConnected = FALSE],
                     ReconnectDelay, "top"))

RelayWake ==
    /\ Running /\ tk.pc = "sleep"
    /\ Becomes([World EXCEPT !.tk.pc = tk.sleepNext, !.tk.sleepFor = 0,
                             !.tk.sleepNext = ""])

(***************************************************************************)
(* The ways the process ends.                                              *)
(***************************************************************************)
\* Daemon.cleanup: delete the daemon's session on the relay and remove the
\* local session file (no call of it exists in the program)
cleanup(w) ==
    [w EXCEPT !.env.relaySessions = @ \ {w.d.session},
              !.env.deleted = Append(@, w.d.session),
              !.env.sessionFile = FALSE]

\* main returns: its deferred calls run last-in first-out, term.Restore,
\* ptmx.Close, then DeleteSession of the session main created at startup
mainReturns(w) ==
    [w EXCEPT !.env.termRaw = FALSE,
              !.d.ptmx = FALSE,
              !.env.relaySessions = @ \ {w.tk.mainSession},
              !.env.deleted = Append(@, w.tk.mainSession),
              !.env.proc = "exited"]

\* os.Interrupt arrives on sigChan
Sigint == Running /\ Becomes(mainReturns(World))

\* the child process exits: waitForProcess delivers
ChildExit == Running /\ Becomes(mainReturns(World))

\* SIGTERM and SIGHUP are not given to signal.Notify: the runtime ends the
\* process at once
SignalKill ==
    /\ Running
    /\ \E sig \in {"SIGTERM", "SIGHUP"} :
         Becomes([World EXCEPT !.env.proc = "exited"])

\* ptmx.Read fails in the PTY reader goroutine
PtyReadError ==
    /\ Running /\ d.running
    /\ Becomes([World EXCEPT !.d.running = FALSE])

(***************************************************************************)
(* Initial states.                                                         *)
(***************************************************************************)
NoMsg == [type |-> "", role |-> "", payload |-> <<>>]

\* main has started the PTY on a terminal of 80x24, the relay loop has
\* registered its first socket, and no mobile has been heard of yet
DaemonStarted ==
    [wsConn |-> 1, mobileConnected |-> FALSE, relayConnected |-> TRUE,
     ptmx |-> TRUE, running |-> TRUE,
     session |-> SessionId(1), token |-> TokenOf(1),
     aesGCM |-> initEncryption(TokenOf(1)),
     agentType |-> "claude", mobileLineBuf |-> <<>>,
     pcCols |-> 80, pcRows |-> 24, mobileCols |-> 0, mobileRows |-> 0,
     currentClient |-> "pc", pcSwitchTimer |-> "nil",
     chunkedUploads |-> EmptyMap, uploadsMade |-> FALSE,
     uploadCleanupStarted |-> FALSE, pairedMobiles |-> <<>>]

EnvStarted ==
    [ptyCols |-> 80, ptyRows |-> 24, ptyIn |-> <<>>, wsOut |-> <<>>,
     files |-> <<>>, now |-> 0, proc |-> "running",
     relaySessions |-> {SessionId(1)}, termRaw |-> TRUE,
     relayLog |-> <<>>, sessionFile |-> FALSE, executed |-> <<>>,
     ptyOut |-> <<>>, stdout |-> <<>>, wsMu |-> "", wsLog |-> <<>>,
     closed |-> {}, deleted |-> <<>>, http |-> <<>>, pingLog |-> <<>>,
     opened |-> {},
     mutex |-> [m \in {"mu", "wsMu", "ptyMu", "uploadMu", "uploadCleanupMu"} |->
                  [w |-> "", r |-> {}]]]

TasksStarted ==
    [pc |-> "reading", rd |-> [Idle EXCEPT !.pc = "read"], rdData |-> <<>>,
     rdMsg |-> NoMsg, nFrames |-> 0, saveTasks |-> <<>>, nudges |-> 0,
     modeTasks |-> <<>>, gcNext |-> 0,
     lineBuf |-> <<>>, inEscapeSeq |-> FALSE, nKeys |-> 0, nSignals |-> 0,
     cbs |-> <<>>,
     wasConnected |-> TRUE, conn |-> 1, sleepFor |-> 0, sleepNext |-> "",
     nCreates |-> 0, nDials |-> 1, mainSession |-> SessionId(1),
     script |-> <<>>, side |-> "", qr |-> NoQR, lastInput |-> "",
     pr |-> [pc |-> "read", buf |-> <<>>, nRead |-> 0],
     snd |-> [pty |-> NoSend, mode |-> NoSend],
     first |-> "registered", ping |-> 1,
     rdMobile |-> NoMobile, poll |-> NoPoll,
     calls |-> <<>>, nCalls |-> 0, nTokens |-> 0,
     th |-> [t \in {"stdin", "reader", "pty", "ping", "sigwinch", "timer", "poll",
                    "gc", "mode", "loop"} |-> [todo |-> <<>>, io |-> ""]],
     nJobs |-> 0, spawned |-> 0, pings |-> <<>>, nPings |-> 0,
     timers |-> <<>>, sinceKey |-> 0]

(***************************************************************************)
(* Frames a mobile may send, sealed under the key of token i.              *)
(***************************************************************************)
Sealed(i, plaintext) ==
    [type |-> "data", role |-> "",
     payload |-> encrypt(initEncryption(TokenOf(i)), Nonce, plaintext).out]
CtrlFrame(i, body) == Sealed(i, <<0>> \o LitControl("CTRL:") \o body)

RECURSIVE Join(_, _)
Join(parts, sep) ==
    IF Len(parts) = 0 THEN <<>>
    ELSE IF Len(parts) = 1 THEN parts[1]
    ELSE parts[1] \o <<sep>> \o Join(Tail(parts), sep)

U1 == <<117, 49>>                          \* "u1"
U2 == <<117, 50>>                          \* "u2"
F_hi == <<104,105,46,116,120,116>>         \* "hi.txt"
F_dotdot == <<46, 46>>                     \* ".."
B_hell == <<97,71,86,115,98,65,61,61>>     \* base64 of "hell"
B_world == <<100,50,57,121,98,71,81,61>>   \* base64 of "world"
B_A == <<81,81,61,61>>                     \* base64 of "A"
B_bad == <<33,33,33,33>>                   \* "!!!!", not base64

StartBody(id, name, n, size) ==
    Join(<<LitControl("file-upload-start"), id, name, Itoa(n), Itoa(size)>>, Colon)
ChunkBody(id, idx, b64) ==
    Join(<<LitControl("file-upload-chunk"), id, Itoa(idx), b64>>, Colon)

UploadBodies ==
    { StartBody(U1, F_hi, 2, 4),
      StartBody(U1, F_hi, 0, 0),
      StartBody(U2, F_dotdot, 1, 1),
      Join(<<LitControl("file-upload-start"), U1, F_hi>>, Colon),
      ChunkBody(U1, 0, B_hell),
      ChunkBody(U1, 1, B_world),
      ChunkBody(U1, 5, B_A),
      ChunkBody(U1, 0, B_bad),
      ChunkBody(U2, 0, B_A),
      Join(<<LitControl("file-upload-cancel"), U1>>, Colon) }

UploadFrames == { CtrlFrame(1, b) : b \in UploadBodies }

(***************************************************************************)
(* The upload reassembler under any sequence of upload frames.             *)
(***************************************************************************)
InitUpload ==
    /\ d = DaemonStarted
    /\ env = EnvStarted
    /\ tk = TasksStarted

ReadUpload == ReadFrom(UploadFrames, MaxFrames)

NextUpload == ReadUpload \/ SaveTask

SpecUpload == InitUpload /\ [][NextUpload]_vars

(***************************************************************************)
(* Reading the traffic back: what a frame says once opened with the        *)
(* daemon's key.                                                           *)
(***************************************************************************)
HasPrefix(s, p) == Len(s) >= Len(p) /\ SubSeq(s, 1, Len(p)) = p
CutPrefix(s, p) == SubSeq(s, Len(p) + 1, Len(s))

\* the control text carried by a frame, <<>> when it carries none
CtrlText(key, m) ==
    LET r == decrypt(key, m.payload) IN
    IF m.type = "data" /\ r.ok /\ IsControlFrame(r.data)
    THEN SubSeq(r.data, 7, Len(r.data)) ELSE <<>>

StartFields(key, m) ==
    LET t == CtrlText(key, m) IN
    IF HasPrefix(t, LitControl("file-upload-start") \o <<Colon>>)
    THEN SplitN(CutPrefix(t, LitControl("file-upload-start") \o <<Colon>>), Colon, 4) ELSE <<>>

ChunkFields(key, m) ==
    LET t == CtrlText(key, m) IN
    IF HasPrefix(t, LitControl("file-upload-chunk") \o <<Colon>>)
    THEN SplitN(CutPrefix(t, LitControl("file-upload-chunk") \o <<Colon>>), Colon, 3) ELSE <<>>

\* the messages written to the socket by this step, as control texts
NewOut == [i \in 1..(Len(env'.wsOut) - Len(env.wsOut)) |->
             CtrlText(d.aesGCM, env'.wsOut[Len(env.wsOut) + i])]

\* this step is the reader taking a frame
ReadStep == tk'.nFrames = tk.nFrames + 1

S_hellworld == <<104,101,108,108,119,111,114,108,100>>         \* "hellworld"

(***************************************************************************)
(* C5.  A chunked upload is handed to the writer only by a chunk that      *)
(* makes the set of received indices exactly 0..total_chunks-1, whatever   *)
(* the order of arrival; what is handed over is the chunks concatenated    *)
(* in ascending index order and the record is removed by the same step;    *)
(* the writer writes exactly those bytes and then sends                    *)
(* file-upload-result:success:<path>.                                      *)
(***************************************************************************)
C5_ReassemblyStep ==
    /\ Len(tk'.saveTasks) > Len(tk.saveTasks) =>
         LET f == ChunkFields(d.aesGCM, tk'.rdMsg)
             id == f[1]
             rec == d.chunkedUploads[id]
             received == MapPut(rec.Chunks, Sscanf(f[2]), B64Decode(f[3]).data)
             task == tk'.saveTasks[Len(tk'.saveTasks)]
         IN /\ ReadStep
            /\ Len(f) = 3
            /\ id \in DOMAIN d.chunkedUploads
            /\ DOMAIN received = 0..(rec.TotalChunks - 1)
            /\ task.data = Concat([i \in 1..rec.TotalChunks |-> received[i - 1]])
            /\ task.name = rec.FileName
            /\ id \notin DOMAIN d'.chunkedUploads
    /\ Len(env'.files) > Len(env.files) =>
         \E i \in 1..Len(tk.saveTasks) :
            LET file == env'.files[Len(env'.files)] IN
            /\ tk'.saveTasks = RemoveAt(tk.saveTasks, i)
            /\ env'.files = Append(env.files, file)
            /\ file.data = tk.saveTasks[i].data
            /\ NewOut = <<LitUpload("file-upload-result:") \o LitUpload("success:") \o file.path>>

C5_Reassembly == [][C5_ReassemblyStep]_vars

\* chunk 1 arrived before chunk 0 and the file holds "hell" then "world"
C5_Witness ==
    /\ Len(env.files) = 1
    /\ env.files[1].data = S_hellworld
    /\ ChunkFields(d.aesGCM, tk.rdMsg) = <<U1, Itoa(0), B_hell>>
    /\ U1 \notin DOMAIN d.chunkedUploads
    /\ Len(env.wsOut) > 0
    /\ CtrlText(d.aesGCM, env.wsOut[Len(env.wsOut)])
         = LitUpload("file-upload-result:") \o LitUpload("success:") \o env.files[1].path

(***************************************************************************)
(* C6.  The bytes of a completed upload handed to the writer (and written  *)
(* unchanged, see C5) are as many as the total_size of the start frame.    *)
(***************************************************************************)
C6_SizeAsAdvertised ==
    [][Len(tk'.saveTasks) > Len(tk.saveTasks) =>
         LET f == ChunkFields(d.aesGCM, tk'.rdMsg)
             rec == d.chunkedUploads[f[1]]
             task == tk'.saveTasks[Len(tk'.saveTasks)]
         IN Len(task.data) = rec.TotalSize]_vars

(***************************************************************************)
(* C7.  A chunk whose base64 is invalid, or a chunk that completes the     *)
(* count while an index of 0..total_chunks-1 is missing, is answered by    *)
(* file-upload-result:error:<msg> and leaves no record of its upload.      *)
(***************************************************************************)
C7_IntegrityFailureDropsRecord ==
    [][ReadStep =>
         LET f == ChunkFields(d.aesGCM, tk'.rdMsg)
             id == f[1]
             dec == B64Decode(f[3])
             rec == d.chunkedUploads[id]
             received == MapPut(rec.Chunks, Sscanf(f[2]), dec.data)
             invalid == ~dec.ok
             missing == /\ dec.ok
                        /\ id \in DOMAIN d.chunkedUploads
                        /\ Cardinality(DOMAIN received) = rec.TotalChunks
                        /\ DOMAIN received # 0..(rec.TotalChunks - 1)
         IN (Len(f) = 3 /\ (invalid \/ missing)) =>
              /\ Len(NewOut) = 1
              /\ HasPrefix(NewOut[1], LitUpload("file-upload-result:") \o LitUpload("error:"))
              /\ id \notin DOMAIN d'.chunkedUploads]_vars

(***************************************************************************)
(* C8.  Every upload record holds at most total_chunks chunks.             *)
(***************************************************************************)
C8_ChunksBounded ==
    \A id \in DOMAIN d.chunkedUploads :
       Cardinality(DOMAIN d.chunkedUploads[id].Chunks)
         <= d.chunkedUploads[id].TotalChunks

(***************************************************************************)
(* C10.  A start frame with its four fields is answered by                 *)
(* file-upload-ack:<id>:started; a chunk that is stored without            *)
(* completing the count is answered by file-upload-ack:<id>:<idx>; a       *)
(* chunk that completes the count is answered by no ack but by a           *)
(* file-upload-result, at once when reassembly fails and by the writer     *)
(* otherwise.                                                              *)
(***************************************************************************)
C10_AckStep ==
    /\ ReadStep =>
         LET sf == StartFields(d.aesGCM, tk'.rdMsg)
             cf == ChunkFields(d.aesGCM, tk'.rdMsg)
             id == cf[1]
             rec == d.chunkedUploads[id]
             received == MapPut(rec.Chunks, Sscanf(cf[2]), B64Decode(cf[3]).data)
         IN /\ Len(sf) = 4 => NewOut = <<LitUpload("file-upload-ack:") \o sf[1] \o LitUpload(":started")>>
            /\ (Len(cf) = 3 /\ B64Decode(cf[3]).ok /\ id \in DOMAIN d.chunkedUploads) =>
                 IF Cardinality(DOMAIN received) # rec.TotalChunks
                 THEN NewOut = <<LitUpload("file-upload-ack:") \o id \o <<Colon>> \o Itoa(Sscanf(cf[2]))>>
                 ELSE \/ Len(NewOut) = 1 /\ HasPrefix(NewOut[1], LitUpload("file-upload-result:"))
                      \/ /\ NewOut = <<>>
                         /\ Len(tk'.saveTasks) = Len(tk.saveTasks) + 1
    /\ Len(tk'.saveTasks) < Len(tk.saveTasks) =>
         Len(NewOut) = 1 /\ HasPrefix(NewOut[1], LitUpload("file-upload-result:"))

C10_AckPolicy == [][C10_AckStep]_vars

\* start, first chunk and completing chunk were answered by exactly
\* "started", ":0" and a result
C10_Witness ==
    /\ Len(env.wsOut) = 3
    /\ CtrlText(d.aesGCM, env.wsOut[1]) = LitUpload("file-upload-ack:") \o U1 \o LitUpload(":started")
    /\ CtrlText(d.aesGCM, env.wsOut[2]) = LitUpload("file-upload-ack:") \o U1 \o <<Colon>> \o Itoa(0)
    /\ HasPrefix(CtrlText(d.aesGCM, env.wsOut[3]), LitUpload("file-upload-result:") \o LitUpload("success:"))
    /\ tk.nFrames = 3

(***************************************************************************)
(* The upload store under the clock: starts and chunks arrive while time   *)
(* passes and the cleanup ticker fires.                                    *)
(***************************************************************************)
TimedBodies ==
    { StartBody(U1, F_hi, 2, 4),
      StartBody(U2, F_dotdot, 1, 1),
      ChunkBody(U1, 0, B_hell) }

TimedFrames == { CtrlFrame(1, b) : b \in TimedBodies }

ReadTimed == ReadFrom(TimedFrames, MaxTimedFrames)

NextUploadGC == ReadTimed \/ Tick \/ UploadGC

SpecUploadGC == InitUpload /\ [][NextUploadGC]_vars

IdleFor(id) == env.now - d.chunkedUploads[id].ReceivedAt

(***************************************************************************)
(* C9 as stated.  No record that has been idle for longer than the upload  *)
(* timeout remains in the store.                                           *)
(***************************************************************************)
C9_NoStaleRecord ==
    \A id \in DOMAIN d.chunkedUploads : IdleFor(id) <= UploadTimeout

(***************************************************************************)
(* C9.  No record remains once it has been idle for longer than the        *)
(* upload timeout plus one cleanup interval, and the collector removes     *)
(* only records idle for longer than the upload timeout, leaving every     *)
(* other record as it was.                                                 *)
(***************************************************************************)
C9_GCStep ==
    tk'.gcNext # tk.gcNext /\ d.uploadCleanupStarted =>
       \A id \in DOMAIN d.chunkedUploads :
          IF IdleFor(id) > UploadTimeout
          THEN id \notin DOMAIN d'.chunkedUploads
          ELSE /\ id \in DOMAIN d'.chunkedUploads
               /\ d'.chunkedUploads[id] = d.chunkedUploads[id]

C9_CollectedWithinInterval ==
    /\ [](\A id \in DOMAIN d.chunkedUploads :
            IdleFor(id) <= UploadTimeout + UploadCleanupInterval)
    /\ [][C9_GCStep]_vars

\* the record of u1 was started and has been collected, the younger
\* record of u2 is still there
C9_Witness ==
    /\ Len(env.wsOut) > 0
    /\ CtrlText(d.aesGCM, env.wsOut[1]) = LitUpload("file-upload-ack:") \o U1 \o LitUpload(":started")
    /\ U1 \notin DOMAIN d.chunkedUploads
    /\ U2 \in DOMAIN d.chunkedUploads
    /\ env.now > UploadTimeout

(***************************************************************************)
(* Terminal frames after a reconnection: the daemon holds the second       *)
(* session and token; the mobile may still send frames sealed under the    *)
(* first token, frames in plain base64, or frames that are not base64.     *)
(***************************************************************************)
DaemonRekeyed ==
    [DaemonStarted EXCEPT !.wsConn = 2,
                          !.session = SessionId(2), !.token = TokenOf(2),
                          !.aesGCM = initEncryption(TokenOf(2))]

InitCrypto ==
    /\ d = DaemonRekeyed
    /\ env = [EnvStarted EXCEPT !.relaySessions = {SessionId(2)}]
    /\ tk = TasksStarted

CryptoFrames ==
    { Sealed(2, <<97>>),
      Sealed(1, <<97>>),
      [type |-> "data", role |-> "", payload |-> B64Encode(<<97>>)],
      [type |-> "data", role |-> "", payload |-> B_bad] }

ReadCrypto == ReadFrom(CryptoFrames, MaxFrames)

NextCrypto == ReadCrypto \/ ReaderWrite

SpecCrypto == InitCrypto /\ [][NextCrypto]_vars

(***************************************************************************)
(* C2.  A data frame that fails AEAD decryption, such as one sealed under  *)
(* the previous session token, never causes a byte to be written to the    *)
(* PTY: whenever the PTY input grows, the frame being handled opens under  *)
(* the daemon's key.                                                       *)
(***************************************************************************)
C2_UndecryptableNeverWritten ==
    [][env'.ptyIn # env.ptyIn => decrypt(d.aesGCM, tk.rdMsg.payload).ok]_vars

(***************************************************************************)
(* The viewport: the mobile resizes and types, the PC user types and       *)
(* resizes the window, the debounce timer fires.                           *)
(***************************************************************************)
S_40_20 == <<52,48,44,50,48>>                                  \* "40,20"

ViewportFrames ==
    { CtrlFrame(1, LitControl("resize") \o <<Colon>> \o S_40_20),
      Sealed(1, <<97>>) }

PCKeys == {97}
PCSizes == {<<100, 30>>}

InitViewport ==
    /\ d = DaemonStarted
    /\ env = EnvStarted
    /\ tk = TasksStarted

ReadViewport == ReadFrom(ViewportFrames, MaxViewFrames)
StdinViewport == StdinFrom(PCKeys, MaxKeys)
SigwinchViewport == SigwinchTo(PCSizes)

NextViewport ==
    \/ ReadViewport \/ ReaderSwitchBegin \/ ReaderSwitchResize \/ ReaderSwitchCommit
    \/ ReaderResizeApply \/ ReaderWrite
    \/ StdinViewport \/ TimerFire
    \/ CallbackBegin \/ CallbackResize \/ CallbackCommit
    \/ SigwinchViewport
    \/ Nudge \/ ModeNotify

SpecViewport == InitViewport /\ [][NextViewport]_vars

\* no handler is between the sections of a switch or of a resize
ViewportQuiet ==
    /\ tk.rd.pc \in {"read", "write"}
    /\ tk.cbs = <<>>

(***************************************************************************)
(* C1.  Whenever no switch or resize is in progress: if the PTY exists     *)
(* and current_client is X, the PTY's winsize is (X_cols, X_rows).         *)
(***************************************************************************)
C1_WinsizeFollowsClient ==
    (ViewportQuiet /\ d.ptmx) =>
       /\ d.currentClient = "pc" =>
            env.ptyCols = d.pcCols /\ env.ptyRows = d.pcRows
       /\ d.currentClient = "mobile" =>
            env.ptyCols = d.mobileCols /\ env.ptyRows = d.mobileRows

(***************************************************************************)
(* The relay loop from program start: the session s1 was created by main,  *)
(* no socket has been dialed yet.                                          *)
(***************************************************************************)
InitRelay ==
    /\ d = [DaemonStarted EXCEPT !.wsConn = 0, !.relayConnected = FALSE]
    /\ env = [EnvStarted EXCEPT !.relayLog = <<Event("create", [d |-> DaemonStarted])>>]
    /\ tk = [TasksStarted EXCEPT !.pc = "top", !.rd = Idle, !.wasConnected = FALSE,
                                 !.conn = 0, !.nDials = 0, !.first = "", !.ping = 0]

RelayFrames ==
    { [type |-> "connected", role |-> "mobile", payload |-> <<>>],
      [type |-> "disconnected", role |-> "", payload |-> <<>>] }

ReadRelay == ReadFrom(RelayFrames, MaxRelayFrames)

NextRelay ==
    \/ RelayTop \/ RelayRecreate \/ RelayDial \/ RelayHandshake
    \/ ReadRelay \/ SocketLost \/ RelayTeardown \/ RelayWake

SpecRelay == InitRelay /\ [][NextRelay]_vars

RelayLog == env.relayLog
EventsBefore(j, ev) == { i \in 1..(j - 1) : RelayLog[i].ev = ev }
Latest(S) == CHOOSE i \in S : \A k \in S : k <= i

(***************************************************************************)
(* C3.  Every dial made after a registered socket was lost comes after a   *)
(* successful create_session that followed the loss, and uses the session  *)
(* id of the latest such creation, with the daemon's token being the       *)
(* token of that creation and its AEAD key derived from that token; a      *)
(* failed create_session is followed by a sleep of RelayConnectDelay and   *)
(* another create_session.                                                 *)
(***************************************************************************)
C3_DialsFreshSession ==
    \A j \in 1..Len(RelayLog) :
       (RelayLog[j].ev = "dial" /\ EventsBefore(j, "lost") # {}) =>
          LET l == Latest(EventsBefore(j, "lost"))
              cs == { c \in EventsBefore(j, "create") : c > l }
          IN /\ cs # {}
             /\ RelayLog[j].session = RelayLog[Latest(cs)].session
             /\ RelayLog[j].session # RelayLog[l].session
             /\ RelayLog[j].token = RelayLog[Latest(cs)].token
             /\ RelayLog[j].token # RelayLog[l].token
             /\ RelayLog[j].key = initEncryption(RelayLog[Latest(cs)].token)

C3_RetryStep ==
    (Len(env'.relayLog) > Len(env.relayLog)
       /\ env'.relayLog[Len(env'.relayLog)].ev = "createFail")
    => /\ tk'.pc = "sleep"
       /\ tk'.sleepFor = RelayConnectDelay
       /\ tk'.sleepNext = "recreate"

C3_RecreateBeforeRedial == [](C3_DialsFreshSession) /\ [][C3_RetryStep]_vars

\* a socket registered on s1 was lost, create_session failed once, and the
\* bridge has dialed on the session created after that
C3_Witness ==
    \E j \in 1..Len(RelayLog) :
       /\ RelayLog[j].ev = "dial"
       /\ RelayLog[j].session = SessionId(3)
       /\ \E l \in EventsBefore(j, "lost") : RelayLog[l].session = SessionId(1)
       /\ EventsBefore(j, "createFail") # {}

(***************************************************************************)
(* The end of the process: the PC user or the mobile types "//quit" and    *)
(* Enter, signals arrive, the child exits, the PTY fails.                  *)
(***************************************************************************)
S_TypedQuit == LitCommand("//quit") \o <<13>>

InitLifecycle ==
    /\ d \in {DaemonStarted, DaemonRekeyed}
    /\ \E file \in BOOLEAN :
         env = [EnvStarted EXCEPT !.relaySessions = {d.session},
                                  !.sessionFile = file]
    /\ tk = TasksStarted

\* the mobile holds the daemon's current token
LifecycleFrames ==
    { Sealed(IF d.token = TokenOf(1) THEN 1 ELSE 2, S_TypedQuit) }

ReadLifecycle == ReadFrom(LifecycleFrames, MaxRelayFrames)

\* the PC user types the next character of "//quit" and Enter
StdinLifecycle ==
    /\ tk.nKeys < Len(S_TypedQuit)
    /\ StdinFrom({S_TypedQuit[tk.nKeys + 1]}, Len(S_TypedQuit))

NextLifecycle ==
    \/ ReadLifecycle \/ ReaderWrite \/ StdinLifecycle
    \/ Sigint \/ ChildExit \/ SignalKill \/ PtyReadError

SpecLifecycle == InitLifecycle /\ [][NextLifecycle]_vars

(***************************************************************************)
(* C4.  Once the process has ended, whichever way it ended, the cleanup    *)
(* has run: the daemon's session is deleted on the relay, the local        *)
(* session file is removed and the terminal is out of raw mode.            *)
(***************************************************************************)
C4_ExitRunsCleanup ==
    env.proc = "exited" =>
       /\ d.session \notin env.relaySessions
       /\ ~env.sessionFile
       /\ ~env.termRaw

\* the text of the mode message for a client
ModeText(client) == LitViewport("mode:") \o LitViewport(client)

\* this step put the mode message of the client on the socket
ModeSent(client) == \E i \in 1..Len(NewOut) : NewOut[i] = ModeText(client)

C16_TransitionStep ==
    /\ Len(tk'.modeTasks) > Len(tk.modeTasks) =>
         LET client == tk'.modeTasks[Len(tk'.modeTasks)] IN
         /\ d'.currentClient = client
         /\ env'.wsOut = env.wsOut /\ env'.ptyIn = env.ptyIn
         /\ tk'.nudges = tk.nudges + (IF client = "mobile" THEN 1 ELSE 0)
    /\ \A client \in {"pc", "mobile"} :
         ModeSent(client) =>
            \E i \in 1..Len(tk.modeTasks) :
               tk.modeTasks[i] = client /\ tk'.modeTasks = RemoveAt(tk.modeTasks, i)
    /\ env'.ptyIn = env.ptyIn \o <<12>> =>
         tk.nudges > 0 /\ tk'.nudges = tk.nudges - 1

(***************************************************************************)
(* C16.  A transition changes current_client in the step that starts its   *)
(* notification and redraw goroutines, and nothing is sent in that step:   *)
(* a mode message reaches the socket, and a Ctrl+L the PTY, only from a    *)
(* goroutine started by an earlier commit, so the change of current_client *)
(* is visible before both.                                                 *)
(***************************************************************************)
C16_CommitBeforeNotify == [][C16_TransitionStep]_vars

\* the switch to mobile is complete: its mode message is on the socket and
\* its Ctrl+L in the PTY
C16_Witness ==
    /\ \E i \in 1..Len(env.wsOut) :
         CtrlText(d.aesGCM, env.wsOut[i]) = ModeText("mobile")
    /\ \E i \in 1..Len(env.ptyIn) : env.ptyIn[i] = 12
    /\ tk.modeTasks = <<>> /\ tk.nudges = 0

Count(s, x) == Len(SelectSeq(s, LAMBDA e : e = x))

\* the control texts put on the socket so far
SentTexts == [i \in 1..Len(env.wsOut) |-> CtrlText(d.aesGCM, env.wsOut[i])]

C20_EmitStep ==
    /\ \A client \in {"pc", "mobile"} :
         (d.currentClient # client /\ d'.currentClient = client) =>
            tk'.modeTasks = Append(tk.modeTasks, client)
    /\ Len(tk'.modeTasks) < Len(tk.modeTasks) =>
         \E i \in 1..Len(tk.modeTasks) :
            /\ tk'.modeTasks = RemoveAt(tk.modeTasks, i)
            /\ IF d.mobileConnected /\ d.relayConnected /\ d.wsConn # 0
               THEN NewOut = <<ModeText(tk.modeTasks[i])>>
               ELSE env'.wsOut = env.wsOut

InitInputEdge ==
    /\ d = DaemonStarted
    /\ env = EnvStarted
    /\ tk = TasksStarted

\* what the mobile sends: its size, a byte, its size again
InputEdgeFrames ==
    <<CtrlFrame(1, LitControl("resize") \o <<Colon>> \o S_40_20),
      Sealed(1, <<97>>),
      CtrlFrame(1, LitControl("resize") \o <<Colon>> \o S_40_20)>>

\* the reader takes the next frame of the mobile off the socket
ReadInputEdge ==
    /\ Reading /\ tk.rd.pc = "read" /\ tk.nFrames < Len(InputEdgeFrames)
    /\ LET msg == InputEdgeFrames[tk.nFrames + 1] IN
         Becomes([handleWebSocketMessage(
                    [World EXCEPT !.tk.nFrames = @ + 1, !.tk.rdMsg = msg], msg)
                    EXCEPT !.tk.lastInput = "mobile"])

\* the stdin goroutine reads a printable key
StdinInputEdge ==
    /\ Running /\ tk.nKeys < MaxKeys
    /\ \E char \in PCKeys :
         Becomes([stdinByte([World EXCEPT !.tk.nKeys = @ + 1], char)
                    EXCEPT !.tk.lastInput = "pc"])

NextInputEdge ==
    \/ ReadInputEdge \/ ReaderSwitchBegin \/ ReaderSwitchResize \/ ReaderSwitchCommit
    \/ ReaderResizeApply \/ ReaderWrite
    \/ StdinInputEdge \/ TimerFire \/ CallbackBegin \/ CallbackResize \/ CallbackCommit
    \/ Nudge \/ ModeNotify

SpecInputEdge == InitInputEdge /\ [][NextInputEdge]_vars

\* the size of a side
DimsOf(client) ==
    IF client = "mobile" THEN <<d.mobileCols, d.mobileRows>> ELSE <<d.pcCols, d.pcRows>>

(***************************************************************************)
(* C17.  Once no timer is pending and no handler is at work, current_client*)
(* and the PTY's winsize are those of the side whose input arrived last    *)
(* (a printable key for the PC, a frame for the mobile), provided the size *)
(* of that side is known.                                                  *)
(***************************************************************************)
C17_FollowsLastInput ==
    (/\ ViewportQuiet /\ tk.rdData = <<>>
     /\ d.pcSwitchTimer # "armed"
     /\ d.ptmx
     /\ tk.lastInput # ""
     /\ DimsOf(tk.lastInput)[1] > 0 /\ DimsOf(tk.lastInput)[2] > 0)
    => /\ d.currentClient = tk.lastInput
       /\ <<env.ptyCols, env.ptyRows>> = DimsOf(tk.lastInput)

\* the timer and the goroutines it leads to are scheduled by the runtime:
\* an expired timer's callback runs, and a started goroutine goes on
\* (weak fairness of ModeNotify is written out: the action is enabled when a
\* notification goroutine is waiting, and its steps are those that take one)
FairInputEdge ==
    /\ SpecInputEdge
    /\ WF_vars(TimerFire) /\ WF_vars(CallbackBegin) /\ WF_vars(CallbackResize)
    /\ WF_vars(CallbackCommit)
    /\ \/ []<>(~(Running /\ tk.modeTasks # <<>>))
       \/ []<><<Len(tk'.modeTasks) < Len(tk.modeTasks)>>_vars

PtySize == <<env.ptyCols, env.ptyRows>>

ModeOnSocket(client) ==
    \E i \in 1..Len(env.wsOut) : CtrlText(d.aesGCM, env.wsOut[i]) = ModeText(client)

\* a printable key read while the mobile has the viewport: the byte goes to
\* the PTY in that step, nothing is resized or switched, the timer is armed;
\* and a resize made by the timer's callback is to the PC's size
C18_KeyStep ==
    /\ (tk'.nKeys = tk.nKeys + 1 /\ d.currentClient = "mobile") =>
         /\ \E char \in PCKeys : env'.ptyIn = Append(env.ptyIn, char)
         /\ PtySize' = PtySize
         /\ d'.currentClient = "mobile"
         /\ d'.pcSwitchTimer = "armed"
         /\ env'.wsOut = env.wsOut
    /\ (\E i \in 1..Len(tk.cbs) :
           /\ tk.cbs[i].pc = "sw_resize" /\ Len(tk'.cbs) = Len(tk.cbs)
           /\ tk'.cbs[i].pc = "sw_commit") =>
         PtySize' = <<d.pcCols, d.pcRows>>

(***************************************************************************)
(* C18.  While current_client = mobile a printable PC key is written to    *)
(* the PTY at once, without any resize, and arms the debounce timer; once  *)
(* the timer is armed the bridge gets to current_client = pc through a     *)
(* resize of the PTY to the PC's size, and the mode:pc message of that     *)
(* switch reaches the socket.                                              *)
(***************************************************************************)
C18_DebouncedSwitch ==
    /\ [][C18_KeyStep]_vars
    /\ (d.pcSwitchTimer = "armed" /\ d.currentClient = "mobile")
          ~> (d.currentClient = "pc")
    /\ (\E i \in 1..Len(tk.modeTasks) : tk.modeTasks[i] = "pc") ~> ModeOnSocket("pc")

\* the debounced switch has happened after one key typed on the mobile's
\* viewport
C18_Witness ==
    /\ tk.nKeys = 1 /\ d.pcSwitchTimer = "fired"
    /\ d.currentClient = "pc" /\ PtySize = <<d.pcCols, d.pcRows>>
    /\ \E i \in 1..Len(env.ptyIn) : env.ptyIn[i] \in PCKeys
    /\ ModeOnSocket("pc") /\ ModeOnSocket("mobile")

(***************************************************************************)
(* Resize messages: the mobile announces one size after another; nothing   *)
(* happens on the PC.                                                      *)
(***************************************************************************)
S_65536_20 == <<54,53,53,51,54,44,50,48>>                      \* "65536,20"
S_132_43 == <<49,51,50,44,52,51>>                              \* "132,43"

ResizeFrames ==
    { CtrlFrame(1, LitControl("resize") \o <<Colon>> \o args) :
        args \in {S_40_20, S_132_43, S_65536_20} }

InitResize ==
    /\ d = DaemonStarted
    /\ env = EnvStarted
    /\ tk = TasksStarted

ReadResize == ReadFrom(ResizeFrames, MaxFrames)

NextResize ==
    \/ ReadResize \/ ReaderSwitchBegin \/ ReaderSwitchResize \/ ReaderSwitchCommit
    \/ ReaderResizeApply \/ Nudge \/ ModeNotify

SpecResize == InitResize /\ [][NextResize]_vars

\* the size asked for by the resize message read last
AskedSize ==
    LET text == CtrlText(d.aesGCM, tk.rdMsg)
        dims == Split(CutPrefix(text, LitControl("resize") \o <<Colon>>), Comma)
    IN <<Sscanf(dims[1]), Sscanf(dims[2])>>

(***************************************************************************)
(* C19.  When the handling of a resize message with cols > 0 and rows > 0  *)
(* is over and the PTY is open: the PTY's winsize is (cols, rows),          *)
(* current_client is mobile, and every such message so far has had exactly *)
(* one Ctrl+L scheduled (written or pending) and one mode:mobile message   *)
(* enqueued (sent or pending).                                             *)
(***************************************************************************)
C19_ResizeTakesEffect ==
    (tk.nFrames >= 1 /\ tk.rd.pc = "read" /\ d.ptmx
       /\ AskedSize[1] > 0 /\ AskedSize[2] > 0)
    => /\ PtySize = AskedSize
       /\ d.currentClient = "mobile"
       /\ Count(env.ptyIn, 12) + tk.nudges = tk.nFrames
       /\ Count(SentTexts, ModeText("mobile")) + Count(tk.modeTasks, "mobile")
            = tk.nFrames

(***************************************************************************)
(* The line interceptor: one stream of bytes, typed on the PC or sent by   *)
(* the mobile in one data frame.  A stream is a line start followed by up  *)
(* to MaxTail bytes among Enter, ESC, printable bytes and the editing      *)
(* controls.                                                               *)
(***************************************************************************)
Scripts ==
    LET InterceptorBytes == {13, 10, 27, 97, 91, 127, 3, 21}
        LineStarts ==
            { <<>>,
              LitCommand("//status"),
              <<47,47,83,116,97,116,117,115,32>>,            \* "//Status "
              LitCommand("//disconnect") }
        Tails == UNION { [1..n -> InterceptorBytes] : n \in 0..MaxTail }
    IN { p \o t : p \in LineStarts, t \in Tails }

InitInterceptor ==
    /\ d = DaemonStarted
    /\ env = EnvStarted
    /\ \E side \in {"pc", "mobile"} : \E script \in Scripts :
         tk = [TasksStarted EXCEPT !.side = side, !.script = script]

\* the PC user types the next byte of the stream
StdinInterceptor ==
    /\ tk.side = "pc" /\ tk.nKeys < Len(tk.script)
    /\ StdinFrom({tk.script[tk.nKeys + 1]}, Len(tk.script))

\* the mobile's frame with the whole stream arrives
ReadInterceptor ==
    /\ tk.side = "mobile" /\ tk.nFrames = 0
    /\ ReadFrom({Sealed(1, tk.script)}, 1)

NextInterceptor == StdinInterceptor \/ ReadInterceptor \/ ReaderWrite

SpecInterceptor == InitInterceptor /\ [][NextInterceptor]_vars

MetaCommandLines ==
    { LitCommand(c) : c \in {"//qr", "//qr-image", "//status", "//disconnect",
                            "//purge", "//quit"} }

\* what a step that handles Enter must do to the PTY input, the executed
\* commands and the line buffer, given the line buffer before it
EnterHandled(char, bufBefore, bufAfter) ==
    /\ IF TrimSpace(ToLower(bufBefore)) \in MetaCommandLines
       THEN /\ env'.ptyIn = env.ptyIn \o <<21>>
            /\ Len(env'.executed) = Len(env.executed) + 1
       ELSE /\ env'.ptyIn = env.ptyIn \o <<char>>
            /\ env'.executed = env.executed
    /\ bufAfter = <<>>

(***************************************************************************)
(* C11.  On the PC side (outside an escape sequence) and on the mobile     *)
(* side, a CR or LF that ends a line which, lower-cased and trimmed, is a  *)
(* meta-command makes the bridge write Ctrl+U to the PTY and execute the   *)
(* command without forwarding the CR or LF; any other line gets the CR or  *)
(* LF forwarded; the line buffer is empty afterwards in both cases.        *)
(***************************************************************************)
C11_EnterStep ==
    /\ (tk'.nKeys = tk.nKeys + 1 /\ ~tk.inEscapeSeq
          /\ tk.script[tk.nKeys + 1] \in {13, 10})
       => EnterHandled(tk.script[tk.nKeys + 1], tk.lineBuf, tk'.lineBuf)
    /\ (tk.rd.pc = "write" /\ tk.rdData # <<>> /\ tk'.rdData = Tail(tk.rdData)
          /\ Head(tk.rdData) \in {13, 10})
       => EnterHandled(Head(tk.rdData), d.mobileLineBuf, d'.mobileLineBuf)

RECURSIVE RunStdin(_, _)
RunStdin(w, stream) ==
    IF stream = <<>> THEN w ELSE RunStdin(stdinByte(w, Head(stream)), Tail(stream))

RECURSIVE RunMobile(_, _)
RunMobile(w, stream) ==
    IF stream = <<>> THEN w ELSE RunMobile(mobileByte(w, Head(stream)), Tail(stream))

WorldStarted == [d |-> DaemonStarted, env |-> EnvStarted, tk |-> TasksStarted]

(***************************************************************************)
(* C12.  Once the PC side has taken a whole stream, the bytes written to   *)
(* the PTY, the line buffer and the meta-commands executed are those the   *)
(* mobile-side interceptor yields for the same stream.                     *)
(***************************************************************************)
C12_SameOnBothSides ==
    (tk.side = "pc" /\ tk.nKeys = Len(tk.script)) =>
       LET m == RunMobile(WorldStarted, tk.script) IN
       /\ env.ptyIn = m.env.ptyIn
       /\ tk.lineBuf = m.d.mobileLineBuf
       /\ env.executed = m.env.executed

(***************************************************************************)
(* The QR screen: the PC user types //qr, Enter and then more keys, some   *)
(* of them while the screen is open; the mobile sends one data frame.      *)
(***************************************************************************)
QRScripts ==
    { LitCommand("//qr") \o <<13>> \o t : t \in {<<97, 98>>, <<27, 97, 98>>} }

QRFrames == {Sealed(1, <<120, 121>>)}                         \* "xy"

InitQR ==
    /\ d = DaemonStarted
    /\ env = EnvStarted
    /\ \E script \in QRScripts :
         tk = [TasksStarted EXCEPT !.side = "pc", !.script = script]

StdinQR ==
    /\ tk.nKeys < Len(tk.script)
    /\ StdinFrom({tk.script[tk.nKeys + 1]}, Len(tk.script))

ReadQR == ReadFrom(QRFrames, MaxRelayFrames)

NextQR ==
    \/ StdinQR \/ ReadQR \/ ReaderWrite
    \/ QRCtrlC \/ QRCtrlL \/ QRKeyRead \/ QRKeyHandle
    \/ QRExitRequested \/ QRPairingDone \/ QRClose

SpecQR == InitQR /\ [][NextQR]_vars

\* the bytes of s that belong to the set from, in the order of s
Only(s, from) == SelectSeq(s, LAMBDA b : b \in from)

IsPrefixOf(s, t) == Len(s) <= Len(t) /\ SubSeq(t, 1, Len(s)) = s

\* s is t with some elements left out
RECURSIVE IsSubsequence(_, _)
IsSubsequence(s, t) ==
    IF s = <<>> THEN TRUE
    ELSE IF t = <<>> THEN FALSE
    ELSE IF Head(s) = Head(t) THEN IsSubsequence(Tail(s), Tail(t))
    ELSE IsSubsequence(s, Tail(t))

(***************************************************************************)
(* C13.  The bytes of each source are in the PTY input in the order in     *)
(* which they were read: the letters typed on the PC after the command     *)
(* ('a' then 'b') and the letters sent by the mobile ('x' then 'y') each   *)
(* appear in their source's order, whatever the tasks' interleaving.       *)
(***************************************************************************)
C13_SourceOrder ==
    /\ IsSubsequence(Only(env.ptyIn, {97, 98}), <<97, 98>>)
    /\ IsSubsequence(Only(env.ptyIn, {120, 121}), <<120, 121>>)

(***************************************************************************)
(* PTY output and the socket writer: the agent prints "ABC"; the relay     *)
(* announces the mobile, the mobile sends its size, the relay announces    *)
(* that the mobile left.                                                   *)
(***************************************************************************)
PtyOutput == <<65, 66, 67>>

OutputFrames ==
    { [type |-> "connected", role |-> "mobile", payload |-> <<>>],
      [type |-> "disconnected", role |-> "", payload |-> <<>>],
      CtrlFrame(1, LitControl("resize") \o <<Colon>> \o S_40_20) }

InitOutput ==
    /\ d = DaemonStarted
    /\ env = [EnvStarted EXCEPT !.ptyOut = PtyOutput]
    /\ tk = TasksStarted

ReadOutput == ReadFrom(OutputFrames, MaxOutFrames)

SendStep == \E task \in {"pty", "mode"} : SendCheck(task) \/ SendLock(task) \/ SendWrite(task)

NextOutput ==
    \/ PtyRead \/ PtyStdout \/ ModeStart \/ SendStep
    \/ ReadOutput \/ ReaderSwitchBegin \/ ReaderSwitchResize \/ ReaderSwitchCommit
    \/ ReaderResizeApply \/ Nudge

SpecOutput == InitOutput /\ [][NextOutput]_vars

\* the plaintext of a frame on the socket, <<>> when it does not decrypt
PlainOf(m) ==
    LET r == decrypt(d.aesGCM, m.payload) IN
    IF m.type = "data" /\ r.ok THEN r.data ELSE <<>>

\* the PTY bytes the mobile has received: the data frames that are not
\* control frames, in the order of the socket
RECURSIVE MobileBytes(_)
MobileBytes(frames) ==
    IF frames = <<>> THEN <<>>
    ELSE (IF IsControlFrame(PlainOf(Head(frames))) THEN <<>> ELSE PlainOf(Head(frames)))
         \o MobileBytes(Tail(frames))

\* the bytes the reader has read and already handed to stdout
HandedOver ==
    SubSeq(env.ptyOut, 1,
           tk.pr.nRead - (IF tk.pr.pc = "stdout" THEN Len(tk.pr.buf) ELSE 0))

C14_Streams ==
    /\ env.stdout = HandedOver
    /\ IsSubsequence(MobileBytes(env.wsOut), env.stdout)

\* sendToMobile goes on to write exactly when its check finds the mobile and
\* the relay connected
C14_CheckStep ==
    (tk.snd.pty.pc = "check" /\ tk'.snd.pty.pc # "check") =>
        (tk'.snd.pty.pc = "lock" <=> (d.mobileConnected /\ d.relayConnected))

(***************************************************************************)
(* C14.  What the PTY reader has written to stdout is, byte for byte and   *)
(* in order, what it has read from the PTY; the PTY bytes sent to the      *)
(* mobile are some of those bytes in the same order, and a chunk is sent   *)
(* only when sendToMobile finds the mobile connected.                      *)
(***************************************************************************)
C14_OutputMirrored == []C14_Streams /\ [][C14_CheckStep]_vars

\* the whole output is on stdout; the mobile, which connected after the
\* first chunk was handled, received the rest
C14_Witness ==
    /\ env.stdout = PtyOutput /\ tk.pr.pc = "read"
    /\ MobileBytes(env.wsOut) = <<66, 67>>

S_0_20 == <<48,44,50,48>>                                      \* "0,20"

NoOpFrames ==
    <<Sealed(1, <<97>>),
      CtrlFrame(1, LitControl("resize") \o <<Colon>> \o S_0_20),
      CtrlFrame(1, LitControl("resize") \o <<Colon>> \o S_40_20),
      Sealed(1, <<97>>),
      CtrlFrame(1, LitControl("resize") \o <<Colon>> \o S_40_20)>>

InitNoOp ==
    /\ d = DaemonStarted
    /\ env = EnvStarted
    /\ tk = TasksStarted

\* the reader takes the next frame of the mobile off the socket
ReadNoOp ==
    /\ Reading /\ tk.rd.pc = "read" /\ tk.nFrames < Len(NoOpFrames)
    /\ LET msg == NoOpFrames[tk.nFrames + 1] IN
         Becomes(handleWebSocketMessage(
                   [World EXCEPT !.tk.nFrames = @ + 1, !.tk.rdMsg = msg], msg))

NextNoOp ==
    \/ ReadNoOp \/ ReaderSwitchBegin \/ ReaderSwitchResize \/ ReaderSwitchCommit
    \/ ReaderResizeApply \/ ReaderWrite
    \/ StdinViewport \/ TimerFire \/ CallbackBegin \/ CallbackResize \/ CallbackCommit
    \/ Nudge \/ ModeNotify

SpecNoOp == InitNoOp /\ [][NextNoOp]_vars

\* a switch to the client would return early: it is the current client, or
\* its size is unknown
NoTransition(client) ==
    \/ d.currentClient = client
    \/ DimsOf(client)[1] <= 0 \/ DimsOf(client)[2] <= 0

\* nothing a transition does happens in this step: no resize, no redraw
\* goroutine started, no mode message sent or started, no change of client
NoEffect ==
    /\ <<env'.ptyCols, env'.ptyRows>> = PtySize
    /\ tk'.nudges = tk.nudges
    /\ env'.wsOut = env.wsOut /\ tk'.modeTasks = tk.modeTasks
    /\ d'.currentClient = d.currentClient

\* the size asked for by the frame the reader takes next, <<>> when that
\* frame is no resize message
AskedNext ==
    LET text == CtrlText(d.aesGCM, NoOpFrames[tk.nFrames + 1]) IN
    IF HasPrefix(text, LitControl("resize") \o <<Colon>>)
    THEN LET dims == Split(CutPrefix(text, LitControl("resize") \o <<Colon>>), Comma)
         IN <<Sscanf(dims[1]), Sscanf(dims[2])>>
    ELSE <<>>

\* the size asked for by the resize message taken in this step, <<>> when
\* the step takes none
AskedNow == IF ReadStep THEN AskedNext ELSE <<>>

\* the frame taken by this step carries terminal input
ReadsInput ==
    /\ ReadStep /\ tk'.rdMsg.type = "data"
    /\ decrypt(d.aesGCM, tk'.rdMsg.payload).ok
    /\ CtrlText(d.aesGCM, tk'.rdMsg) = <<>>

\* the calls of switchToClient: from the reader for a byte of the mobile
\* and for a resize message, from the timer callback for the PC
C21_SwitchStep ==
    /\ (ReadsInput /\ NoTransition("mobile")) =>
          tk'.rd.pc = "write" /\ NoEffect
    /\ (tk.rd.pc = "sw_begin" /\ tk'.rd # tk.rd /\ NoTransition(tk.rd.client)) =>
          tk'.rd.pc = tk.rd.next /\ NoEffect
    /\ \A i \in 1..Len(tk.cbs) :
          (/\ Len(tk'.cbs) = Len(tk.cbs)
           /\ tk.cbs[i].pc = "sw_begin" /\ tk'.cbs[i].pc = "sw_resize")
          => ~NoTransition("pc")
    /\ ~NoEffect =>
          \/ tk.rd.pc \in {"sw_resize", "sw_commit", "rz_apply"}
          \/ \E i \in 1..Len(tk.cbs) : tk.cbs[i].pc \in {"sw_resize", "sw_commit"}
          \/ tk.nudges > 0 \/ tk.modeTasks # <<>>

\* a resize message whose target is the current client or whose size is
\* not positive does nothing
C21_ResizeIgnored ==
    LET asked == AskedNow IN
    (asked # <<>> /\ (d.currentClient = "mobile" \/ asked[1] <= 0 \/ asked[2] <= 0))
    => tk'.rd.pc = "read" /\ NoEffect

\* a resize message whose size is not positive does nothing; one with a
\* positive size, read on mobile, is applied without a transition
C21_ResizeApplied ==
    LET asked == AskedNow IN
    /\ (asked # <<>> /\ (asked[1] <= 0 \/ asked[2] <= 0)) =>
          /\ tk'.rd.pc = "read" /\ NoEffect
          /\ <<d'.mobileCols, d'.mobileRows>> = <<d.mobileCols, d.mobileRows>>
    /\ (asked # <<>> /\ asked[1] > 0 /\ asked[2] > 0 /\ d.ptmx
          /\ d.currentClient = "mobile") =>
          tk'.rd.pc = "rz_apply" /\ NoEffect
    /\ (tk.rd.pc = "rz_apply" /\ tk'.rd # tk.rd) =>
          /\ <<env'.ptyCols, env'.ptyRows>> = <<ToUint16(tk.rd.cols), ToUint16(tk.rd.rows)>>
          /\ tk'.nudges = tk.nudges + 1
          /\ env'.wsOut = env.wsOut /\ tk'.modeTasks = tk.modeTasks
          /\ d'.currentClient = d.currentClient

C22_Registered ==
    /\ d.relayConnected => tk.first = "registered" /\ d.wsConn = tk.conn
    /\ tk.ping # 0 => tk.first = "registered" /\ tk.ping = tk.conn
    /\ tk.pc = "reading" => tk.first = "registered" /\ tk.ping = tk.conn
    /\ d.wsConn \notin env.closed /\ tk.ping \notin env.closed

C22_HandshakeStep ==
    /\ (d'.relayConnected /\ ~d.relayConnected) =>
          /\ tk.pc = "handshake" /\ tk'.first = "registered"
          /\ tk'.pc = "reading" /\ tk'.ping = tk.conn /\ d'.wsConn = tk.conn
    /\ ((tk'.pc = "reading" /\ tk.pc # "reading") \/ (tk'.ping # 0 /\ tk.ping = 0)) =>
          tk.pc = "handshake" /\ tk'.first = "registered"
    /\ (tk.pc = "handshake" /\ tk'.pc # "handshake" /\ tk'.first # "registered") =>
          /\ env'.closed = env.closed \cup {tk.conn}
          /\ tk'.pc = "sleep" /\ tk'.sleepNext = "top"
          /\ ~d'.relayConnected /\ tk'.ping = 0 /\ d'.wsConn = 0
    /\ (tk.pc = "sleep" /\ tk.sleepNext = "top" /\ tk'.pc # "sleep") => tk'.pc = "top"

(***************************************************************************)
(* C22.  relay_connected becomes true, and the reader and the ping task    *)
(* of a socket are started, only in the step that has read "registered"    *)
(* as the first frame of that socket; with any other first frame, or an    *)
(* error of the read, the socket is closed, nothing is started and the     *)
(* loop sleeps and goes back to its top, from where it dials again.        *)
(***************************************************************************)
C22_RegisteredFirst == []C22_Registered /\ [][C22_HandshakeStep]_vars

\* a socket was closed for its first frame, and the next one has registered
C22_Witness ==
    /\ env.closed # {} /\ tk.conn \notin env.closed
    /\ d.relayConnected /\ d.wsConn = tk.conn /\ tk.ping = tk.conn
    /\ tk.pc = "reading"

\* the positions of connectToRelay: its two loops have no break out of the
\* outer one and no return
LoopPositions == {"top", "recreate", "dial", "handshake", "reading", "teardown", "sleep"}

\* the loop goroutine is scheduled, its sleeps end, and the calls it makes
\* (create_session, dial, the read of the first frame) return
FairRelay ==
    /\ SpecRelay
    /\ WF_vars(RelayTop) /\ WF_vars(RelayRecreate) /\ WF_vars(RelayDial)
    /\ WF_vars(RelayHandshake) /\ WF_vars(RelayTeardown) /\ WF_vars(RelayWake)

\* the loop is about to dial or to create a session beyond the number of
\* dials and sessions of the run
OutOfBudget ==
    \/ tk.pc = "dial" /\ tk.nDials >= MaxDials
    \/ tk.pc = "recreate" /\ tk.nCreates >= MaxSessions

(***************************************************************************)
(* C23.  The relay loop never leaves its positions while the process       *)
(* runs, and whenever the bridge is not relay-connected, after whatever    *)
(* failures of dial, registration, read and create_session, it goes on     *)
(* retrying until it is relay-connected (or the run's number of dials or   *)
(* sessions is used up).                                                   *)
(***************************************************************************)
C23_RetriesForever ==
    /\ [](Running => tk.pc \in LoopPositions)
    /\ (~d.relayConnected) ~> (d.relayConnected \/ OutOfBudget)

\* connected again after a lost socket, a failed create_session, a failed
\* dial and a rejected registration
C23_Witness ==
    /\ d.relayConnected /\ tk.pc = "reading"
    /\ env.closed # {}
    /\ \E i \in 1..Len(RelayLog) : RelayLog[i].ev = "lost"
    /\ \E i \in 1..Len(RelayLog) : RelayLog[i].ev = "createFail"
    /\ tk.nDials = 4 /\ tk.conn = 4 /\ Cardinality(env.closed) = 1

\* the dials made since the last loss of a registered socket all use the
\* same session id and token
C24_SameSession ==
    \A i, j \in 1..Len(RelayLog) :
       (/\ i < j /\ RelayLog[i].ev = "dial" /\ RelayLog[j].ev = "dial"
        /\ \A k \in (i + 1)..(j - 1) : RelayLog[k].ev # "lost")
       => /\ RelayLog[j].session = RelayLog[i].session
          /\ RelayLog[j].token = RelayLog[i].token

C24_SessionStep ==
    /\ tk.pc \in {"dial", "handshake", "sleep", "top"} =>
          d'.session = d.session /\ d'.token = d.token /\ d'.aesGCM = d.aesGCM
    /\ (d'.session # d.session \/ d'.token # d.token) =>
          LET ls == EventsBefore(Len(RelayLog) + 1, "lost")
              cs == EventsBefore(Len(RelayLog) + 1, "create")
          IN /\ tk.pc = "recreate"
             /\ ls # {} /\ Latest(ls) > Latest(cs)

(***************************************************************************)
(* C24.  A failed dial and a rejected registration leave the session id,   *)
(* the token and the key as they are, and the dials that follow use the    *)
(* same session id; the session id and the token change only in a          *)
(* re-creation that follows the loss of a registered socket, once per      *)
(* loss.                                                                   *)
(***************************************************************************)
C24_SessionKept == []C24_SameSession /\ [][C24_SessionStep]_vars

\* the third dial on the first session has registered, after a failed dial
\* and a rejected registration
C24_Witness ==
    /\ d.relayConnected /\ d.session = SessionId(1)
    /\ tk.nDials = 3 /\ tk.conn = 3 /\ Cardinality(env.closed) = 1
    /\ \A i \in 1..Len(RelayLog) : RelayLog[i].ev # "lost"

(***************************************************************************)
(* Rotation and shutdown: the relay loop from program start, ended by an   *)
(* interrupt or by the exit of the child.                                  *)
(***************************************************************************)
NextRotation == NextRelay \/ Sigint \/ ChildExit

SpecRotation == InitRelay /\ [][NextRotation]_vars

(***************************************************************************)
(* C25.  Every use of a session id is a use of the id of the latest        *)
(* session record: each dial is made on the session created last, and the  *)
(* session deleted at shutdown is the daemon's session at that time.       *)
(***************************************************************************)
C25_UsesCurrentSession ==
    /\ \A j \in 1..Len(RelayLog) :
          RelayLog[j].ev = "dial" =>
             RelayLog[j].session = RelayLog[Latest(EventsBefore(j, "create"))].session
    /\ \A i \in 1..Len(env.deleted) : env.deleted[i] = d.session

(***************************************************************************)
(* Pairing: a mobile completes a pairing while the daemon runs; the relay  *)
(* tells the bridge on the socket (mobile_paired) and answers the poll     *)
(* with "completed".  The store holds what earlier runs have left in it.   *)
(***************************************************************************)
M1 == [ID |-> <<109, 49>>, PublicKey |-> <<107, 49>>]          \* "m1", "k1"
M1_rekeyed == [ID |-> <<109, 49>>, PublicKey |-> <<107, 57>>]  \* "m1", "k9"
M2 == [ID |-> <<109, 50>>, PublicKey |-> <<107, 50>>]          \* "m2", "k2"

PairingMobiles == {M1, M1_rekeyed, M2}

\* the lists earlier runs (pairings and an unpair, one at a time) leave
StoredLists ==
    { removePairedMobile(addPairedMobile(addPairedMobile(<<>>, a), b), id) :
        a \in {M1, M2}, b \in {M1, M1_rekeyed}, id \in {<<>>, M2.ID} }

InitPairing ==
    /\ \E list \in StoredLists :
         d = [DaemonStarted EXCEPT !.pairedMobiles = list]
    /\ env = EnvStarted
    /\ tk = TasksStarted

ReadPairing == ReadPaired(PairingMobiles \cup {NoMobile})
TickPairing == PollTick(PairingMobiles)

NextPairing ==
    \/ ReadPairing \/ ReaderPairScan \/ ReaderPairAppend \/ ReaderPairShare
    \/ PairingStart \/ PollDeadline \/ PollTimeout \/ TickPairing
    \/ PollScan \/ PollAppend \/ PollShare

SpecPairing == InitPairing /\ [][NextPairing]_vars

(***************************************************************************)
(* C26.  The paired-mobile list never holds two entries with the same      *)
(* mobile id, whatever the reader and the pairing poll add to it.          *)
(***************************************************************************)
C26_NoDuplicateIds ==
    \A i, j \in 1..Len(d.pairedMobiles) :
       i # j => d.pairedMobiles[i].ID # d.pairedMobiles[j].ID

\* time passes; Go's select takes each ready case with equal probability,
\* so a timeout that stays ready is taken; the calls of the poll return
\* (the relay client has a timeout of HTTPClientTimeout)
FairPairing ==
    /\ SpecPairing
    /\ WF_vars(PollDeadline) /\ SF_vars(PollTimeout)
    /\ WF_vars(PollScan) /\ WF_vars(PollAppend) /\ WF_vars(PollShare)

C27_PollStep ==
    /\ tk'.poll.nPolls = tk.poll.nPolls + 1 =>
          /\ tk.poll.pc = "select"
          /\ tk'.poll.status \in {"error", "pending"} => tk'.poll.pc = "select"
          /\ tk'.poll.status = "expired" =>
                tk'.poll.pc = "done" /\ tk'.poll.left = "expired"
          /\ tk'.poll.status = "completed" => tk'.poll.pc = "scan"
    /\ (tk'.poll.pc = "done" /\ tk.poll.pc # "done") =>
          \/ tk.poll.pc = "select" /\ tk.poll.timeout /\ tk'.poll.left = "timeout"
          \/ tk.poll.pc = "select" /\ tk'.poll.status = "expired"
                /\ tk'.poll.nPolls = tk.poll.nPolls + 1
          \/ tk.poll.pc = "share" /\ tk.poll.status = "completed"
    /\ tk.poll.pc = "done" => tk'.poll = tk.poll

(***************************************************************************)
(* C27.  A pairing poll, once started, ends: it returns when select takes  *)
(* the timeout after the deadline, when a poll answers "expired", and      *)
(* after the handling of a poll that answers "completed"; errors and       *)
(* "pending" answers only make it poll again, and after "completed" or     *)
(* "expired" it polls no more.                                             *)
(***************************************************************************)
C27_PollTerminates ==
    /\ [][C27_PollStep]_vars
    /\ (tk.poll.pc # "none") ~> (tk.poll.pc = "done")

\* the poll has ended on the deadline after an error and a pending answer
C27_Witness ==
    /\ tk.poll.pc = "done" /\ tk.poll.left = "timeout"
    /\ tk.poll.nPolls >= 2 /\ tk.poll.status \in {"error", "pending"}

(***************************************************************************)
(* The relay client (RelayClient): one HTTP request per operation.  A      *)
(* request is its method, URL, headers and body as bytes; an answer is a   *)
(* transport error, or a status with a body; a body that cannot be read    *)
(* yields the bytes read before the failure.                               *)
(***************************************************************************)
\* the words of the relay API, as bytes
LitClient(s) ==
    CASE s = "https://relay" -> <<104,116,116,112,115,58,47,47,114,101,108,97,121>>
      [] s = "/api/pairing/init" -> <<47,97,112,105,47,112,97,105,114,105,110,103,47,105,110,105,116>>
      [] s = "/api/pairing/status?token=" -> <<47,97,112,105,47,112,97,105,114,105,110,103,47,115,116,97,116,117,115,63,116,111,107,101,110,61>>
      [] s = "/api/sessions" -> <<47,97,112,105,47,115,101,115,115,105,111,110,115>>
      [] s = "/api/sessions/" -> <<47,97,112,105,47,115,101,115,115,105,111,110,115,47>>
      [] s = "/tokens" -> <<47,116,111,107,101,110,115>>
      [] s = "/api/sessions?for_cli=true" -> <<47,97,112,105,47,115,101,115,115,105,111,110,115,63,102,111,114,95,99,108,105,61,116,114,117,101>>
      [] s = "/api/pairing/mobiles/" -> <<47,97,112,105,47,112,97,105,114,105,110,103,47,109,111,98,105,108,101,115,47>>
      [] s = "application/json" -> <<97,112,112,108,105,99,97,116,105,111,110,47,106,115,111,110>>
      [] s = "pairing init failed: " -> <<112,97,105,114,105,110,103,32,105,110,105,116,32,102,97,105,108,101,100,58,32>>
      [] s = "pairing status check failed: " -> <<112,97,105,114,105,110,103,32,115,116,97,116,117,115,32,99,104,101,99,107,32,102,97,105,108,101,100,58,32>>
      [] s = "session creation failed: " -> <<115,101,115,115,105,111,110,32,99,114,101,97,116,105,111,110,32,102,97,105,108,101,100,58,32>>
      [] s = "add session token failed: " -> <<97,100,100,32,115,101,115,115,105,111,110,32,116,111,107,101,110,32,102,97,105,108,101,100,58,32>>
      [] s = "session deletion failed: " -> <<115,101,115,115,105,111,110,32,100,101,108,101,116,105,111,110,32,102,97,105,108,101,100,58,32>>
      [] s = "session purge failed: " -> <<115,101,115,115,105,111,110,32,112,117,114,103,101,32,102,97,105,108,101,100,58,32>>
      [] s = "list sessions failed: " -> <<108,105,115,116,32,115,101,115,115,105,111,110,115,32,102,97,105,108,101,100,58,32>>
      [] s = "failed to unpair mobile: " -> <<102,97,105,108,101,100,32,116,111,32,117,110,112,97,105,114,32,109,111,98,105,108,101,58,32>>
      [] s = " - " -> <<32,45,32>>
      [] s = " (failed to read response: " -> <<32,40,102,97,105,108,101,100,32,116,111,32,114,101,97,100,32,114,101,115,112,111,110,115,101,58,32>>
      [] s = ")" -> <<41>>
      [] s = "failed to connect to relay: " -> <<102,97,105,108,101,100,32,116,111,32,99,111,110,110,101,99,116,32,116,111,32,114,101,108,97,121,58,32>>
      [] s = "failed to create session: " -> <<102,97,105,108,101,100,32,116,111,32,99,114,101,97,116,101,32,115,101,115,115,105,111,110,58,32>>
      [] s = "failed to add session token: " -> <<102,97,105,108,101,100,32,116,111,32,97,100,100,32,115,101,115,115,105,111,110,32,116,111,107,101,110,58,32>>
      [] s = "failed to delete session: " -> <<102,97,105,108,101,100,32,116,111,32,100,101,108,101,116,101,32,115,101,115,115,105,111,110,58,32>>
      [] s = "failed to purge sessions: " -> <<102,97,105,108,101,100,32,116,111,32,112,117,114,103,101,32,115,101,115,115,105,111,110,115,58,32>>
      [] s = "failed to list sessions: " -> <<102,97,105,108,101,100,32,116,111,32,108,105,115,116,32,115,101,115,115,105,111,110,115,58,32>>
      [] s = "200 OK" -> <<50,48,48,32,79,75>>
      [] s = "201 Created" -> <<50,48,49,32,67,114,101,97,116,101,100>>
      [] s = "204 No Content" -> <<50,48,52,32,78,111,32,67,111,110,116,101,110,116>>
      [] s = "400 Bad Request" -> <<52,48,48,32,66,97,100,32,82,101,113,117,101,115,116>>
      [] s = "404 Not Found" -> <<52,48,52,32,78,111,116,32,70,111,117,110,100>>
      [] s = "500 Internal Server Error" -> <<53,48,48,32,73,110,116,101,114,110,97,108,32,83,101,114,118,101,114,32,69,114,114,111,114>>
      [] s = "{\"pc_id\":" -> <<123,34,112,99,95,105,100,34,58>>
      [] s = ",\"pc_name\":" -> <<44,34,112,99,95,110,97,109,101,34,58>>
      [] s = ",\"public_key\":" -> <<44,34,112,117,98,108,105,99,95,107,101,121,34,58>>
      [] s = ",\"agent_type\":" -> <<44,34,97,103,101,110,116,95,116,121,112,101,34,58>>
      [] s = ",\"working_dir\":" -> <<44,34,119,111,114,107,105,110,103,95,100,105,114,34,58>>
      [] s = ",\"display_name\":" -> <<44,34,100,105,115,112,108,97,121,95,110,97,109,101,34,58>>
      [] s = ",\"token\":" -> <<44,34,116,111,107,101,110,34,58>>
      [] s = ",\"encrypted_tokens\":" -> <<44,34,101,110,99,114,121,112,116,101,100,95,116,111,107,101,110,115,34,58>>
      [] s = "}" -> <<125>>
      [] s = "{" -> <<123>>
      [] s = "{\"encrypted_token\":" -> <<123,34,101,110,99,114,121,112,116,101,100,95,116,111,107,101,110,34,58>>
      [] s = ",\"mobile_id\":" -> <<44,34,109,111,98,105,108,101,95,105,100,34,58>>
      [] s = ",\"ssh_available\":true,\"ssh_port\":22,\"hostname\":\"h\",\"username\":\"u\"" -> <<44,34,115,115,104,95,97,118,97,105,108,97,98,108,101,34,58,116,114,117,101,44,34,115,115,104,95,112,111,114,116,34,58,50,50,44,34,104,111,115,116,110,97,109,101,34,58,34,104,34,44,34,117,115,101,114,110,97,109,101,34,58,34,117,34>>
      [] s = "claude" -> <<99,108,97,117,100,101>>
      [] s = "/w" -> <<47,119>>
      [] s = "w" -> <<119>>
      [] s = "pc" -> <<112,99>>
      [] s = "desk" -> <<100,101,115,107>>
      [] s = "unexpected EOF" -> <<117,110,101,120,112,101,99,116,101,100,32,69,79,70>>
      [] s = "invalid character" -> <<105,110,118,97,108,105,100,32,99,104,97,114,97,99,116,101,114>>
      [] s = "dial tcp: timeout" -> <<100,105,97,108,32,116,99,112,58,32,116,105,109,101,111,117,116>>
      [] s = "session not found" -> <<115,101,115,115,105,111,110,32,110,111,116,32,102,111,117,110,100>>
      [] s = "unknown pc" -> <<117,110,107,110,111,119,110,32,112,99>>

X25519PublicKeySize == 32
NonceSize == 24

HexDigit(n) == IF n < 10 THEN 48 + n ELSE 87 + n
HexValue(c) ==
    IF c >= 48 /\ c <= 57 THEN c - 48
    ELSE IF c >= 97 /\ c <= 102 THEN c - 87
    ELSE IF c >= 65 /\ c <= 70 THEN c - 55
    ELSE -1

\* hex.EncodeToString
HexEncode(b) ==
    [i \in 1..(2 * Len(b)) |->
        IF i % 2 = 1 THEN HexDigit(b[(i + 1) \div 2] \div 16)
        ELSE HexDigit(b[i \div 2] % 16)]

\* hex.DecodeString: [ok, data]
HexDecode(s) ==
    IF Len(s) % 2 # 0 \/ \E i \in 1..Len(s) : HexValue(s[i]) < 0
    THEN [ok |-> FALSE, data |-> <<>>]
    ELSE [ok |-> TRUE,
          data |-> [i \in 1..(Len(s) \div 2) |->
                       16 * HexValue(s[2 * i - 1]) + HexValue(s[2 * i])]]

\* strings.Contains
Contains(s, sub) ==
    \E i \in 1..(Len(s) - Len(sub) + 1) : SubSeq(s, i, i + Len(sub) - 1) = sub

\* curve25519 and box.Seal: a key pair is a scalar and its multiple of the
\* base point, the two sides of a box derive the same key, and the sealed
\* message is an authenticator followed by the ciphertext
ScalarOf(privateKey) == SumBytes(privateKey) % 251
ScalarBaseMult(privateKey) ==
    [i \in 1..X25519PublicKeySize |-> (3 * ScalarOf(privateKey)) % 251]
BoxKey(publicKey, privateKey) == (publicKey[1] * ScalarOf(privateKey)) % 251
BoxTag(key, nonce, ct) ==
    LET t == (key * 5 + SumBytes(nonce) + 3 * SumBytes(ct) + 2) % 256
    IN [j \in 1..16 |-> (t + j) % 256]
BoxSeal(message, nonce, publicKey, privateKey) ==
    LET key == BoxKey(publicKey, privateKey)
        ct == [i \in 1..Len(message) |->
                 (message[i] + key + nonce[((i - 1) % NonceSize) + 1]) % 256]
    IN BoxTag(key, nonce, ct) \o ct
BoxOpen(sealed, nonce, publicKey, privateKey) ==
    LET key == BoxKey(publicKey, privateKey)
        ct == SubSeq(sealed, 17, Len(sealed))
    IN IF Len(sealed) < 16 \/ SubSeq(sealed, 1, 16) # BoxTag(key, nonce, ct)
       THEN [ok |-> FALSE, data |-> <<>>]
       ELSE [ok |-> TRUE,
             data |-> [i \in 1..Len(ct) |->
                         (ct[i] - key - nonce[((i - 1) % NonceSize) + 1]) % 256]]

\* the nonce rand.Reader produces (one value stands for all of them)
BoxNonce == [i \in 1..NonceSize |-> (7 * i) % 256]

\* EncryptForMobile(message, mobilePublicKeyHex, pcPrivateKey): [ok, data]
EncryptForMobile(message, mobilePublicKeyHex, pcPrivateKey) ==
    LET mobilePublicKeyBytes == HexDecode(mobilePublicKeyHex) IN
    IF ~mobilePublicKeyBytes.ok THEN [ok |-> FALSE, data |-> <<>>]
    ELSE IF Len(mobilePublicKeyBytes.data) # X25519PublicKeySize
    THEN [ok |-> FALSE, data |-> <<>>]
    ELSE [ok |-> TRUE,
          data |-> HexEncode(BoxNonce \o BoxSeal(message, BoxNonce,
                                 mobilePublicKeyBytes.data, pcPrivateKey))]

\* GetPrivateKeyFromHex(hexKey): [ok, key]
GetPrivateKeyFromHex(hexKey) ==
    LET bytes == HexDecode(hexKey) IN
    IF ~bytes.ok \/ Len(bytes.data) # 32 THEN [ok |-> FALSE, key |-> <<>>]
    ELSE [ok |-> TRUE, key |-> bytes.data]

\* generateRandomToken: the hex of 16 random bytes; n stands for the bytes
\* drawn by the n-th call
generateRandomToken(n) == HexEncode([i \in 1..16 |-> (n * 17 + i) % 256])

\* the PC's configuration as getOrCreatePCConfig makes it
PcPrivateKey == [i \in 1..32 |-> 9]
PcPrivateKeyHex == HexEncode(PcPrivateKey)
PcPublicKeyHex == HexEncode(ScalarBaseMult(PcPrivateKey))
PCConfigOf(mobiles) ==
    [PCID |-> <<112, 99>>, PCName |-> <<100, 101, 115, 107>>,
     PublicKey |-> PcPublicKeyHex, PrivateKey |-> PcPrivateKeyHex,
     PairedMobiles |-> mobiles]

JsonString(s) == <<34>> \o s \o <<34>>

\* json.Marshal of a map[string]string whose keys are given in order
RECURSIVE JsonMap(_)
JsonMap(entries) ==
    IF entries = <<>> THEN <<>>
    ELSE JsonString(entries[1][1]) \o <<58>> \o JsonString(entries[1][2])
         \o (IF Len(entries) > 1 THEN <<44>> ELSE <<>>) \o JsonMap(Tail(entries))

\* s sorts before t, as sort.Strings orders the keys of a marshalled map
RECURSIVE LessBytes(_, _)
LessBytes(s, t) ==
    IF t = <<>> THEN FALSE
    ELSE IF s = <<>> THEN TRUE
    ELSE IF Head(s) # Head(t) THEN Head(s) < Head(t)
    ELSE LessBytes(Tail(s), Tail(t))

\* the entries of a map in the order of their keys
RECURSIVE SortedEntries(_)
SortedEntries(m) ==
    IF m = {} THEN <<>>
    ELSE LET e == CHOOSE x \in m : \A y \in m : y = x \/ LessBytes(x[1], y[1])
         IN <<e>> \o SortedEntries(m \ {e})

NoResult == [kind |-> "none"]
NoRequest == [method |-> "", url |-> <<>>, header |-> {}, body |-> <<>>]

\* resp.Status
StatusText(code) ==
    CASE code = 200 -> LitClient("200 OK")
      [] code = 201 -> LitClient("201 Created")
      [] code = 204 -> LitClient("204 No Content")
      [] code = 400 -> LitClient("400 Bad Request")
      [] code = 404 -> LitClient("404 Not Found")
      [] code = 500 -> LitClient("500 Internal Server Error")

Succeeded(value) == [failed |-> FALSE, err |-> <<>>, value |-> value]
Failed(text) == [failed |-> TRUE, err |-> text, value |-> NoResult]

\* io.ReadAll(resp.Body): [ok, data]
ReadAll(resp) ==
    IF resp.readErr THEN [ok |-> FALSE, data |-> SubSeq(resp.Body, 1, resp.nRead)]
    ELSE [ok |-> TRUE, data |-> resp.Body]

\* the error of an answer whose status is not accepted
StatusError(prefix, resp) ==
    LET respBody == ReadAll(resp) IN
    IF ~respBody.ok
    THEN Failed(LitClient(prefix) \o StatusText(resp.StatusCode)
                \o LitClient(" (failed to read response: ")
                \o LitClient("unexpected EOF") \o LitClient(")"))
    ELSE Failed(LitClient(prefix) \o StatusText(resp.StatusCode)
                \o LitClient(" - ") \o respBody.data)

\* json.NewDecoder(resp.Body).Decode(&result)
Decoded(resp) ==
    IF resp.result = NoResult THEN Failed(LitClient("invalid character"))
    ELSE Succeeded(resp.result)

TransportError == LitClient("dial tcp: timeout")

\* InitPairing()
RelayInitPairing(c, resp) ==
    LET body == LitClient("{\"pc_id\":") \o JsonString(c.PCID)
                \o LitClient(",\"pc_name\":") \o JsonString(c.PCName)
                \o LitClient(",\"public_key\":") \o JsonString(c.PublicKey)
                \o LitClient("}")
        req == [method |-> "POST",
                url |-> LitClient("https://relay") \o LitClient("/api/pairing/init"),
                header |-> {<<"Content-Type", LitClient("application/json")>>},
                body |-> body]
    IN [reqs |-> <<req>>,
        ret |-> IF resp.err
                THEN Failed(LitClient("failed to connect to relay: ") \o TransportError)
                ELSE IF resp.StatusCode # 200
                THEN StatusError("pairing init failed: ", resp)
                ELSE Decoded(resp)]

\* CheckPairingStatus(token)
CheckPairingStatus(c, token, resp) ==
    LET req == [method |-> "GET",
                url |-> LitClient("https://relay")
                        \o LitClient("/api/pairing/status?token=") \o token,
                header |-> {}, body |-> <<>>]
    IN [reqs |-> <<req>>,
        ret |-> IF resp.err THEN Failed(TransportError)
                ELSE IF resp.StatusCode # 200
                THEN StatusError("pairing status check failed: ", resp)
                ELSE Decoded(resp)]

\* the encrypted_tokens of a new session: one entry per paired mobile that
\* has a public key the token can be sealed for; a later mobile of the
\* list replaces the entry of an earlier one with the same id
EncryptedTokens(c, sessionToken, pcPrivateKey) ==
    LET sealed(j) == EncryptForMobile(sessionToken, c.PairedMobiles[j].PublicKey,
                                      pcPrivateKey)
        entered == {j \in 1..Len(c.PairedMobiles) :
                       c.PairedMobiles[j].PublicKey # <<>> /\ sealed(j).ok}
        last == {j \in entered :
                    \A k \in entered : c.PairedMobiles[k].ID = c.PairedMobiles[j].ID
                                          => k <= j}
    IN {<<c.PairedMobiles[j].ID, sealed(j).data>> : j \in last}

\* CreateSession(agentType, workDir, displayName, sshInfo); n numbers the
\* token it generates
CreateSession(c, n, agentType, workDir, displayName, sshInfo, resp) ==
    LET pcPrivateKey == GetPrivateKeyFromHex(c.PrivateKey)
        sessionToken == generateRandomToken(n)
        encryptedTokens == EncryptedTokens(c, sessionToken, pcPrivateKey.key)
        body == LitClient("{\"pc_id\":") \o JsonString(c.PCID)
                \o LitClient(",\"agent_type\":") \o JsonString(agentType)
                \o LitClient(",\"working_dir\":") \o JsonString(workDir)
                \o LitClient(",\"display_name\":") \o JsonString(displayName)
                \o LitClient(",\"token\":") \o JsonString(sessionToken)
                \o LitClient(",\"encrypted_tokens\":")
                \o LitClient("{") \o JsonMap(SortedEntries(encryptedTokens))
                \o LitClient("}")
                \o (IF sshInfo
                    THEN LitClient(",\"ssh_available\":true,\"ssh_port\":22,\"hostname\":\"h\",\"username\":\"u\"")
                    ELSE <<>>)
                \o LitClient("}")
        req == [method |-> "POST",
                url |-> LitClient("https://relay") \o LitClient("/api/sessions"),
                header |-> {<<"Content-Type", LitClient("application/json")>>,
                            <<"X-PC-ID", c.PCID>>},
                body |-> body]
    IN IF ~pcPrivateKey.ok THEN [reqs |-> <<>>, ret |-> Failed(<<>>)]
       ELSE [reqs |-> <<req>>,
             ret |-> IF resp.err
                     THEN Failed(LitClient("failed to create session: ") \o TransportError)
                     ELSE IF resp.StatusCode # 200 /\ resp.StatusCode # 201
                     THEN StatusError("session creation failed: ", resp)
                     ELSE IF Decoded(resp).failed THEN Decoded(resp)
                     ELSE Succeeded([resp.result EXCEPT !.Token = sessionToken])]

\* AddSessionTokenForMobile(sessionID, mobileID, encryptedToken)
AddSessionTokenForMobile(c, sessionID, mobileID, encryptedToken, resp) ==
    LET body == LitClient("{\"encrypted_token\":") \o JsonString(encryptedToken)
                \o LitClient(",\"mobile_id\":") \o JsonString(mobileID)
                \o LitClient("}")
        req == [method |-> "POST",
                url |-> LitClient("https://relay") \o LitClient("/api/sessions/")
                        \o sessionID \o LitClient("/tokens"),
                header |-> {<<"Content-Type", LitClient("application/json")>>,
                            <<"X-PC-ID", c.PCID>>},
                body |-> body]
    IN [reqs |-> <<req>>,
        ret |-> IF resp.err
                THEN Failed(LitClient("failed to add session token: ") \o TransportError)
                ELSE IF resp.StatusCode # 200 /\ resp.StatusCode # 201
                THEN StatusError("add session token failed: ", resp)
                ELSE Succeeded(NoResult)]

\* a client that takes "404 Not Found" for a deleted session
DeleteSession_lenient(c, sessionID, resp) ==
    [reqs |-> <<[method |-> "DELETE",
                 url |-> LitClient("https://relay") \o LitClient("/api/sessions/")
                         \o sessionID,
                 header |-> {<<"X-PC-ID", c.PCID>>}, body |-> <<>>]>>,
     ret |-> IF resp.err
             THEN Failed(LitClient("failed to delete session: ") \o TransportError)
             ELSE IF resp.StatusCode \notin {200, 204, 404}
             THEN StatusError("session deletion failed: ", resp)
             ELSE Succeeded(NoResult)]

\* DeleteSession(sessionID)
DeleteSession(c, sessionID, resp) ==
    LET req == [method |-> "DELETE",
                url |-> LitClient("https://relay") \o LitClient("/api/sessions/")
                        \o sessionID,
                header |-> {<<"X-PC-ID", c.PCID>>}, body |-> <<>>]
    IN [reqs |-> <<req>>,
        ret |-> IF resp.err
                THEN Failed(LitClient("failed to delete session: ") \o TransportError)
                ELSE IF resp.StatusCode # 200 /\ resp.StatusCode # 204
                THEN StatusError("session deletion failed: ", resp)
                ELSE Succeeded(NoResult)]

\* PurgeAllSessions()
PurgeAllSessions(c, resp) ==
    LET req == [method |-> "DELETE",
                url |-> LitClient("https://relay") \o LitClient("/api/sessions"),
                header |-> {<<"X-PC-ID", c.PCID>>}, body |-> <<>>]
    IN [reqs |-> <<req>>,
        ret |-> IF resp.err
                THEN Failed(LitClient("failed to purge sessions: ") \o TransportError)
                ELSE IF resp.StatusCode # 200
                THEN StatusError("session purge failed: ", resp)
                ELSE Decoded(resp)]

\* ListAllSessions(): a failed read of a refused answer is ignored and the
\* error carries the bytes that were read
ListAllSessions(c, resp) ==
    LET req == [method |-> "GET",
                url |-> LitClient("https://relay")
                        \o LitClient("/api/sessions?for_cli=true"),
                header |-> {<<"X-PC-ID", c.PCID>>}, body |-> <<>>]
    IN [reqs |-> <<req>>,
        ret |-> IF resp.err
                THEN Failed(LitClient("failed to list sessions: ") \o TransportError)
                ELSE IF resp.StatusCode # 200
                THEN Failed(LitClient("list sessions failed: ")
                            \o StatusText(resp.StatusCode) \o LitClient(" - ")
                            \o ReadAll(resp).data)
                ELSE Decoded(resp)]

\* UnpairMobile(mobileID)
UnpairMobile(c, mobileID, resp) ==
    LET req == [method |-> "DELETE",
                url |-> LitClient("https://relay")
                        \o LitClient("/api/pairing/mobiles/") \o mobileID,
                header |-> {<<"X-PC-ID", c.PCID>>}, body |-> <<>>]
    IN [reqs |-> <<req>>,
        ret |-> IF resp.err THEN Failed(TransportError)
                ELSE IF resp.StatusCode # 200 /\ resp.StatusCode # 204
                THEN StatusError("failed to unpair mobile: ", resp)
                ELSE Succeeded(NoResult)]

\* the calls addTokenForMobile makes for the sessions the relay listed:
\* the i-th call is answered by addResps[i]
RECURSIVE shareSessions(_, _, _, _, _)
shareSessions(c, mobile, sessions, pcPrivateKey, addResps) ==
    IF sessions = <<>> THEN <<>>
    ELSE LET sess == Head(sessions)
             encrypted == EncryptForMobile(sess.Token, mobile.PublicKey, pcPrivateKey)
         IN IF sess.Token = <<>> \/ ~encrypted.ok
            THEN shareSessions(c, mobile, Tail(sessions), pcPrivateKey, addResps)
            ELSE <<[op |-> "AddSessionTokenForMobile", resp |-> Head(addResps),
                    call |-> AddSessionTokenForMobile(c, sess.ID, mobile.ID,
                                                      encrypted.data, Head(addResps))]>>
                 \o shareSessions(c, mobile, Tail(sessions), pcPrivateKey,
                                  Tail(addResps))

\* addTokenForMobile(mobile): the calls it makes, in order
addTokenForMobile(c, mobile, listResp, addResps) ==
    LET pcPrivateKey == GetPrivateKeyFromHex(c.PrivateKey)
        sessions == ListAllSessions(c, listResp)
    IN IF mobile.PublicKey = <<>> \/ ~pcPrivateKey.ok THEN <<>>
       ELSE <<[op |-> "ListAllSessions", resp |-> listResp, call |-> sessions]>>
            \o (IF sessions.ret.failed THEN <<>>
                ELSE shareSessions(c, mobile, sessions.ret.value.sessions,
                                   pcPrivateKey.key, addResps))

(***************************************************************************)
(* The relay client on its own: each step is one call of an operation, or  *)
(* one run of addTokenForMobile, answered by the relay in any way.         *)
(***************************************************************************)
MobileKey(b) == HexEncode(ScalarBaseMult([i \in 1..32 |-> b]))
CM1 == [ID |-> <<109, 49>>, PublicKey |-> MobileKey(1)]
CM1_rekeyed == [ID |-> <<109, 49>>, PublicKey |-> MobileKey(4)]
CM2 == [ID |-> <<109, 50>>, PublicKey |-> MobileKey(2)]
LegacyMobile == [ID |-> <<109, 51>>, PublicKey |-> <<>>]
ShortKeyMobile == [ID |-> <<109, 52>>, PublicKey |-> <<97, 98>>]
ClientLists ==
    {<<>>, <<CM1, CM2>>, <<LegacyMobile, ShortKeyMobile>>, <<CM1, CM1_rekeyed>>}

PairingToken == <<112, 49>>                                      \* "p1"

ErrorBodies == {LitClient("session not found"), LitClient("unknown pc")}
NoAnswer ==
    [err |-> TRUE, StatusCode |-> 0, Body |-> <<>>, readErr |-> FALSE, nRead |-> 0,
     result |-> NoResult]
Refusals ==
    {[err |-> FALSE, StatusCode |-> s, Body |-> b, readErr |-> r,
      nRead |-> IF r THEN Len(b) \div 2 ELSE Len(b), result |-> NoResult] :
        s \in {400, 404, 500}, b \in ErrorBodies, r \in BOOLEAN}
\* an accepted answer decodes to a result, or to none with status 200
Accepts(results) ==
    {[err |-> FALSE, StatusCode |-> s, Body |-> <<>>, readErr |-> FALSE, nRead |-> 0,
      result |-> x] : s \in {200, 201, 204}, x \in results}
    \cup {[err |-> FALSE, StatusCode |-> 200, Body |-> <<>>, readErr |-> FALSE,
           nRead |-> 0, result |-> NoResult]}
Responses(results) == {NoAnswer} \cup Refusals \cup Accepts(results)

\* the answers to the calls that attach a token: all accepted, or the
\* first refused, or every one refused
AddAnswers ==
    LET ok == CHOOSE r \in Accepts({NoResult}) : r.StatusCode = 201
        no == CHOOSE r \in Refusals :
                 r.StatusCode = 404 /\ ~r.readErr /\ r.Body = LitClient("session not found")
    IN {<<ok, ok>>, <<no, ok>>, <<no, no>>}

\* the answers that matter after the answer to the list
AnswersAfter(listResp) ==
    IF listResp.result = NoResult \/ listResp.StatusCode # 200 THEN {<<>>}
    ELSE IF listResp.result.sessions = <<>> THEN {<<>>}
    ELSE AddAnswers

ListedSessions ==
    {[kind |-> "sessions", sessions |-> ss] :
        ss \in {<<>>,
                <<[ID |-> SessionId(1), Token |-> generateRandomToken(1)]>>,
                <<[ID |-> SessionId(1), Token |-> <<>>],
                  [ID |-> SessionId(2), Token |-> generateRandomToken(2)]>>}}

ClientConfig == PCConfigOf(d.pairedMobiles)

\* the requests of the calls are sent, and the calls return
Performed(calls) ==
    [World EXCEPT !.env.http = @ \o Concat([i \in 1..Len(calls) |-> calls[i].call.reqs]),
                  !.tk.calls = [i \in 1..Len(calls) |->
                                  [op |-> calls[i].op, resp |-> calls[i].resp,
                                   ret |-> calls[i].call.ret]],
                  !.tk.nCalls = @ + 1]

Calling == Running /\ tk.nCalls < MaxCalls

CallInitPairing ==
    /\ Calling
    /\ \E resp \in Responses({[kind |-> "pairing", Token |-> PairingToken]}) :
         Becomes(Performed(<<[op |-> "InitPairing", resp |-> resp,
                              call |-> RelayInitPairing(ClientConfig, resp)]>>))

CallCheckPairingStatus ==
    /\ Calling
    /\ \E resp \in Responses({[kind |-> "status", Status |-> "pending"]}) :
         Becomes(Performed(<<[op |-> "CheckPairingStatus", resp |-> resp,
                              call |-> CheckPairingStatus(ClientConfig, PairingToken,
                                                          resp)]>>))

CallCreateSession ==
    /\ Calling
    /\ \E sshInfo \in BOOLEAN,
          resp \in Responses({[kind |-> "session", SessionID |-> SessionId(2),
                               Token |-> <<>>]}) :
         LET n == tk.nTokens + 1 IN
         Becomes([Performed(<<[op |-> "CreateSession", resp |-> resp,
                               call |-> CreateSession(ClientConfig, n,
                                           LitClient("claude"), LitClient("/w"),
                                           LitClient("w"), sshInfo, resp)]>>)
                  EXCEPT !.tk.nTokens = n])

CallDeleteSession ==
    /\ Calling
    /\ \E resp \in Responses({NoResult}) :
         Becomes(Performed(<<[op |-> "DeleteSession", resp |-> resp,
                              call |-> DeleteSession(ClientConfig, d.session, resp)]>>))

CallPurgeAllSessions ==
    /\ Calling
    /\ \E resp \in Responses({[kind |-> "purged", DeletedCount |-> 2]}) :
         Becomes(Performed(<<[op |-> "PurgeAllSessions", resp |-> resp,
                              call |-> PurgeAllSessions(ClientConfig, resp)]>>))

CallUnpairMobile ==
    /\ Calling
    /\ \E i \in 1..Len(d.pairedMobiles), resp \in Responses({NoResult}) :
         Becomes(Performed(<<[op |-> "UnpairMobile", resp |-> resp,
                              call |-> UnpairMobile(ClientConfig,
                                                    d.pairedMobiles[i].ID, resp)]>>))

CallAddTokenForMobile ==
    /\ Calling
    /\ \E i \in 1..Len(d.pairedMobiles), listResp \in Responses(ListedSessions) :
       \E addResps \in AnswersAfter(listResp) :
         Becomes(Performed(addTokenForMobile(ClientConfig, d.pairedMobiles[i],
                                             listResp, addResps)))

InitClient ==
    /\ d \in {[DaemonStarted EXCEPT !.pairedMobiles = l] : l \in ClientLists}
    /\ env = EnvStarted
    /\ tk = TasksStarted

NextClient ==
    \/ CallInitPairing \/ CallCheckPairingStatus \/ CallCreateSession
    \/ CallDeleteSession \/ CallPurgeAllSessions \/ CallUnpairMobile
    \/ CallAddTokenForMobile

SpecClient == InitClient /\ [][NextClient]_vars

\* the text of a request contains the bytes given
Carries(req, text) ==
    \/ Contains(req.url, text) \/ Contains(req.body, text)
    \/ \E h \in req.header : Contains(h[2], text)

(***************************************************************************)
(* C28.  No request the client sends to the relay contains a session       *)
(* token in plaintext.                                                     *)
(***************************************************************************)
C28_TokenNeverInPlaintext ==
    \A i \in 1..Len(env.http) : \A n \in 1..tk.nTokens :
        ~Carries(env.http[i], generateRandomToken(n))

(***************************************************************************)
(* C29.  Every request the client sends carries the header X-PC-ID set to  *)
(* the id of the PC.                                                       *)
(***************************************************************************)
C29_EveryRequestHasPcId ==
    \A i \in 1..Len(env.http) : <<"X-PC-ID", ClientConfig.PCID>> \in env.http[i].header

C30_Refused(call) == ~call.resp.err /\ call.resp.StatusCode >= 400

(***************************************************************************)
(* C30.  A call the relay answers with a 4xx or 5xx status returns an      *)
(* error and no result, and the error carries the text of the body         *)
(* whenever the body could be read.                                        *)
(***************************************************************************)
C30_RefusalIsAnError ==
    \A i \in 1..Len(tk.calls) :
        C30_Refused(tk.calls[i]) =>
            /\ tk.calls[i].ret.failed
            /\ tk.calls[i].ret.value = NoResult
            /\ ~tk.calls[i].resp.readErr =>
                  Contains(tk.calls[i].ret.err, tk.calls[i].resp.Body)

\* DeleteSession was answered "404 Not Found" with a body, and returned an
\* error that ends with that body
C30_Witness ==
    \E i \in 1..Len(tk.calls) :
        /\ tk.calls[i].op = "DeleteSession"
        /\ tk.calls[i].resp.StatusCode = 404 /\ ~tk.calls[i].resp.readErr
        /\ tk.calls[i].resp.Body = LitClient("session not found")
        /\ tk.calls[i].ret.failed
        /\ tk.calls[i].ret.err = LitClient("session deletion failed: ")
               \o LitClient("404 Not Found") \o LitClient(" - ")
               \o LitClient("session not found")

\* the fields a verb takes after its colon, 0 for a verb that takes its
\* argument whole
FieldsOf(verb) ==
    CASE verb = LitControl("ssh-setup-key") -> 3
      [] verb = LitControl("file-upload") -> 2
      [] verb = LitControl("file-upload-start") -> 4
      [] verb = LitControl("file-upload-chunk") -> 3
      [] OTHER -> 0

UploadVerbs ==
    {LitControl("file-upload"), LitControl("file-upload-start"),
     LitControl("file-upload-chunk")}

\* the control text has a verb that takes fields, and not that many fields
WrongFieldCount(t) ==
    LET parts == SplitN(t, Colon, 2)
        verb == parts[1]
        args == IF Len(parts) > 1 THEN parts[2] ELSE <<>>
    IN /\ t # <<>>
       /\ IF verb = LitControl("resize") THEN Len(Split(args, Comma)) # 2
          ELSE FieldsOf(verb) > 0 /\ Len(SplitN(args, Colon, FieldsOf(verb))) # FieldsOf(verb)

C31_FramingStep ==
    ReadStep =>
      LET t == CtrlText(d.aesGCM, tk'.rdMsg)
          verb == SplitN(t, Colon, 2)[1]
      IN WrongFieldCount(t) =>
           /\ d' = [d EXCEPT !.mobileConnected = TRUE]
           /\ tk'.saveTasks = tk.saveTasks /\ env'.ptyIn = env.ptyIn
           /\ IF verb \in UploadVerbs
              THEN /\ Len(NewOut) = 1
                   /\ HasPrefix(NewOut[1], LitUpload("file-upload-result:") \o LitUpload("error:"))
              ELSE NewOut = <<>>

(***************************************************************************)
(* C31.  A control message with the wrong number of fields changes no      *)
(* state; it is answered by nothing, except that for the upload verbs      *)
(* file-upload, file-upload-start and file-upload-chunk one                *)
(* file-upload-result:error message is sent to the mobile.                 *)
(***************************************************************************)
C31_FramingErrorSurfaced == [][C31_FramingStep]_vars

(***************************************************************************)
(* The locks of the daemon and the tasks that take them.  A function of    *)
(* the program is read here as the sequence of its lock operations and of  *)
(* the I/O it performs between them; an I/O operation takes time (it       *)
(* begins and it ends), so that two of them can be seen to overlap.  The   *)
(* locks are the daemon lock d.mu (read/write), the WebSocket write mutex  *)
(* d.wsMu, the PTY mutex d.ptyMu, d.uploadMu and uploadCleanupMu.          *)
(***************************************************************************)
Mutexes == {"mu", "wsMu", "ptyMu", "uploadMu", "uploadCleanupMu"}

Lock(m) == <<"Lock", m>>
Unlock(m) == <<"Unlock", m>>
RLock(m) == <<"RLock", m>>
RUnlock(m) == <<"RUnlock", m>>
IO(kind) == <<"IO", kind>>
Go(task) == <<"Go", task>>

\* sendToPTY
sendToPTY_locks ==
    <<RLock("mu"), RUnlock("mu"), Lock("ptyMu"), IO("ptyWrite"), Unlock("ptyMu")>>

\* resizePTY
resizePTY_locks ==
    <<RLock("mu"), RUnlock("mu"), Lock("ptyMu"), IO("ptyResize"), Unlock("ptyMu")>>

\* schedulePCSwitch
schedulePCSwitch_locks == <<Lock("mu"), Unlock("mu")>>

\* switchToClient when it switches: the notification goroutine is started
\* at the end (the redraw goroutine, a sendToPTY, is left to the keyboard)
switchToClient_locks ==
    <<Lock("mu"), Unlock("mu")>> \o resizePTY_locks
    \o <<Lock("mu"), Unlock("mu"), Go("mode")>>

\* switchToClient when it returns early
switchToClient_same == <<Lock("mu"), Unlock("mu")>>

\* a sendControlMessage that takes the write mutex before it reads the
\* connection under the daemon lock
sendControlMessage_nested ==
    <<Lock("wsMu"), RLock("mu"), RUnlock("mu"), IO("ws"), Unlock("wsMu")>>

\* sendToMobile and sendControlMessage
sendControlMessage_locks ==
    <<RLock("mu"), RUnlock("mu"), Lock("wsMu"), IO("ws"), Unlock("wsMu")>>

\* a ping that writes without the write mutex
pingTick_unlocked == <<RLock("mu"), RUnlock("mu"), IO("ws")>>

\* one tick of the ping goroutine
pingTick == <<RLock("mu"), RUnlock("mu"), Lock("wsMu"), IO("ws"), Unlock("wsMu")>>

\* disconnectMobile: the kick and the message on the terminal, d.mu held
\* until the return
disconnectMobile_locks ==
    <<Lock("mu"), Lock("wsMu"), IO("ws"), Unlock("wsMu"), IO("term"), Unlock("mu")>>

\* printStatus
printStatus_locks == <<RLock("mu"), IO("term"), RUnlock("mu")>>

\* the window-change goroutine of main on the PC side: pty.Setsize under
\* d.mu
sigwinch_locks == <<Lock("mu"), IO("ptyResize"), Unlock("mu")>>

\* handleResizeCommand when the mobile is the current client
handleResizeCommand_locks == <<Lock("mu"), Unlock("mu")>> \o resizePTY_locks

\* handleChunkedUploadStart for the first upload, and its ack
handleChunkedUploadStart_locks ==
    <<Lock("uploadMu"), Lock("uploadCleanupMu"), Unlock("uploadCleanupMu"),
      Unlock("uploadMu")>> \o sendControlMessage_locks

\* cleanupAbandonedUploads
cleanupAbandonedUploads_locks == <<Lock("uploadMu"), Unlock("uploadMu")>>

\* the "data" case of the reader for terminal bytes: isMobileConnected,
\* setMobileConnected, switchToClient, and sendToPTY for a byte
handleData_locks ==
    <<RLock("mu"), RUnlock("mu"), Lock("mu"), Unlock("mu")>>
    \o switchToClient_same \o sendToPTY_locks

\* the completed case of the pairing poll without a callback: the session
\* id is read, the token is shared, the result is printed and a newline is
\* written to the PTY
pollCompleted_locks ==
    <<RLock("mu"), RUnlock("mu"), IO("http"), IO("term"), IO("ptyWrite")>>

\* the PTY reader: os.Stdout.Write and sendToMobile
ptyReader_locks == <<IO("term")>> \o sendControlMessage_locks

\* the connection loop after a registration and after a lost socket
connectToRelay_locks == <<Lock("mu"), Unlock("mu")>>

\* an Enter on a meta-command line at the keyboard: Ctrl+U to the PTY, a
\* newline on the terminal, the command
CommandAt(body) == sendToPTY_locks \o <<IO("term")>> \o body

LockTasks ==
    {"stdin", "reader", "pty", "ping", "sigwinch", "timer", "poll", "gc", "mode", "loop"}

\* what a task may run next
JobsOf(task) ==
    CASE task = "stdin" ->
           {sendToPTY_locks, sendToPTY_locks \o schedulePCSwitch_locks,
            CommandAt(disconnectMobile_locks), CommandAt(printStatus_locks)}
      [] task = "reader" ->
           {handleData_locks, handleResizeCommand_locks,
            <<RLock("mu"), RUnlock("mu"), Lock("mu"), Unlock("mu")>>
               \o switchToClient_locks,
            handleChunkedUploadStart_locks}
      [] task = "pty" -> {ptyReader_locks}
      [] task = "ping" -> {pingTick}
      [] task = "sigwinch" -> {sigwinch_locks}
      [] task = "timer" -> {switchToClient_locks}
      [] task = "poll" -> {pollCompleted_locks}
      [] task = "gc" -> {cleanupAbandonedUploads_locks}
      [] task = "mode" -> {sendControlMessage_locks}
      [] task = "loop" -> {connectToRelay_locks}

NoThread == [todo |-> <<>>, io |-> ""]
FreeMutex == [w |-> "", r |-> {}]

Todo(t) == tk.th[t].todo
Doing(t, op) == Todo(t) # <<>> /\ Head(Todo(t))[1] = op
Target(t) == Head(Todo(t))[2]
Advanced(w, t) == [w EXCEPT !.tk.th[t].todo = Tail(@)]

\* a task that has nothing to do takes its next job; the notification
\* goroutine runs once per start
LockStart ==
    /\ Running /\ tk.nJobs < MaxJobs
    /\ \E t \in LockTasks : \E job \in JobsOf(t) :
         /\ Todo(t) = <<>>
         /\ t = "mode" => tk.spawned > 0
         /\ Becomes([World EXCEPT !.tk.th[t].todo = job,
                                  !.tk.nJobs = @ + 1,
                                  !.tk.spawned = IF t = "mode" THEN @ - 1 ELSE @])

\* Lock returns when nobody holds the mutex; RLock when no writer holds it
LockAcquire ==
    /\ Running
    /\ \E t \in LockTasks :
         \/ /\ Doing(t, "Lock")
            /\ env.mutex[Target(t)] = FreeMutex
            /\ Becomes(Advanced([World EXCEPT !.env.mutex[Target(t)].w = t], t))
         \/ /\ Doing(t, "RLock")
            /\ env.mutex[Target(t)].w = ""
            /\ Becomes(Advanced([World EXCEPT !.env.mutex[Target(t)].r = @ \cup {t}], t))

LockRelease ==
    /\ Running
    /\ \E t \in LockTasks :
         \/ /\ Doing(t, "Unlock")
            /\ Becomes(Advanced([World EXCEPT !.env.mutex[Target(t)].w = ""], t))
         \/ /\ Doing(t, "RUnlock")
            /\ Becomes(Advanced([World EXCEPT !.env.mutex[Target(t)].r = @ \ {t}], t))

LockIOBegin ==
    /\ Running
    /\ \E t \in LockTasks :
         /\ Doing(t, "IO") /\ tk.th[t].io = ""
         /\ Becomes([World EXCEPT !.tk.th[t].io = Target(t)])

LockIOEnd ==
    /\ Running
    /\ \E t \in LockTasks :
         /\ Doing(t, "IO") /\ tk.th[t].io # ""
         /\ Becomes(Advanced([World EXCEPT !.tk.th[t].io = ""], t))

LockGo ==
    /\ Running
    /\ \E t \in LockTasks :
         /\ Doing(t, "Go")
         /\ Becomes(Advanced([World EXCEPT !.tk.spawned = @ + 1], t))

InitLocks ==
    /\ d = DaemonStarted
    /\ env = EnvStarted
    /\ tk = TasksStarted

NextLocks ==
    \/ LockStart \/ LockAcquire \/ LockRelease \/ LockIOBegin \/ LockIOEnd \/ LockGo

SpecLocks == InitLocks /\ [][NextLocks]_vars

Holds(t, m) == env.mutex[m].w = t \/ t \in env.mutex[m].r
Writing(kinds) == {t \in LockTasks : tk.th[t].io \in kinds}

(***************************************************************************)
(* C33.  At most one task writes to the socket at a time, and a task       *)
(* writes only while it holds the write mutex.                             *)
(***************************************************************************)
C33_OneSocketWriter ==
    /\ Cardinality(Writing({"ws"})) <= 1
    /\ \A t \in Writing({"ws"}) : env.mutex["wsMu"].w = t

\* the kick of disconnectMobile is being written while the ping waits for
\* the write mutex
C33_Witness ==
    /\ tk.th["stdin"].io = "ws"
    /\ Doing("ping", "Lock") /\ Target("ping") = "wsMu"

(***************************************************************************)
(* C34.  No write to the PTY and no resize of the PTY overlaps another     *)
(* write or resize.                                                        *)
(***************************************************************************)
C34_PtyOpsOrdered == Cardinality(Writing({"ptyWrite", "ptyResize"})) <= 1

(***************************************************************************)
(* C35.  No task performs I/O while it holds the daemon lock, for reading  *)
(* or for writing.                                                         *)
(***************************************************************************)
C35_NoIOUnderDaemonLock ==
    \A t \in LockTasks : tk.th[t].io # "" => ~Holds(t, "mu")

\* t cannot go on because of u: t asks for a mutex that u holds, or t asks
\* to read a mutex for which u is waiting to write (sync.RWMutex lets no
\* new reader in while a writer waits)
WaitsFor(t, u) ==
    /\ t # u
    /\ \/ /\ Doing(t, "Lock") /\ Holds(u, Target(t))
       \/ /\ Doing(t, "RLock")
          /\ \/ env.mutex[Target(t)].w = u
             \/ /\ Doing(u, "Lock") /\ Target(u) = Target(t)
                /\ env.mutex[Target(t)] # FreeMutex

\* the tasks that t waits for, directly or through others
RECURSIVE Blockers(_, _)
Blockers(S, n) ==
    LET more == S \cup {u \in LockTasks : \E t \in S : WaitsFor(t, u)}
    IN IF n = 0 \/ more = S THEN S ELSE Blockers(more, n - 1)
WaitsOn(t) == Blockers({u \in LockTasks : WaitsFor(t, u)}, Cardinality(LockTasks))

(***************************************************************************)
(* C37.  No task waits, directly or through other tasks, for itself: the   *)
(* waits of the tasks on the five locks never form a cycle.  A task also   *)
(* never asks for a lock it holds.                                         *)
(***************************************************************************)
C37_NoLockCycle ==
    \A t \in LockTasks :
        /\ t \notin WaitsOn(t)
        /\ (Doing(t, "Lock") \/ Doing(t, "RLock")) => ~Holds(t, Target(t))

\* disconnectMobile holds the daemon lock and waits for the write mutex,
\* which the PTY reader holds
C37_Witness ==
    /\ env.mutex["mu"].w = "stdin" /\ env.mutex["wsMu"].w = "pty"
    /\ WaitsFor("stdin", "pty")

(***************************************************************************)
(* The ping goroutines.  One is started by every registration, with the    *)
(* context created for that registration (tk.ping names the socket whose   *)
(* context is not cancelled).  Between the case of the select it has taken *)
(* and the read of d.wsConn, and between that read and the write, the      *)
(* goroutine can be overtaken by the connection loop.                      *)
(***************************************************************************)
PingEnds(w, i) == [w EXCEPT !.tk.pings = RemoveAt(@, i)]

\* case <-ticker.C, taken while the context is not cancelled
PingTick ==
    /\ Running /\ tk.nPings < MaxPings
    /\ \E i \in 1..Len(tk.pings) :
         /\ tk.pings[i].pc = "select" /\ tk.ping = tk.pings[i].by
         /\ Becomes([World EXCEPT !.tk.pings[i].pc = "read", !.tk.nPings = @ + 1])

\* case <-ctx.Done()
PingCancelled ==
    /\ Running
    /\ \E i \in 1..Len(tk.pings) :
         /\ tk.pings[i].pc = "select" /\ tk.ping # tk.pings[i].by
         /\ Becomes(PingEnds(World, i))

\* c := d.wsConn; connected := d.relayConnected, under the read lock
PingRead ==
    /\ Running
    /\ \E i \in 1..Len(tk.pings) :
         /\ tk.pings[i].pc = "read"
         /\ IF ~d.relayConnected \/ d.wsConn = 0
            THEN Becomes(PingEnds(World, i))
            ELSE Becomes([World EXCEPT !.tk.pings[i].pc = "write",
                                       !.tk.pings[i].c = d.wsConn])

\* c.WriteJSON(ping) under the write mutex; the goroutine ends on an error
PingWrite ==
    /\ Running
    /\ \E i \in 1..Len(tk.pings) : \E ok \in BOOLEAN :
         /\ tk.pings[i].pc = "write"
         /\ LET w1 == [World EXCEPT !.env.pingLog =
                          Append(@, [by |-> tk.pings[i].by, sock |-> tk.pings[i].c,
                                     ok |-> ok])]
            IN IF ok THEN Becomes([w1 EXCEPT !.tk.pings[i].pc = "select"])
               ELSE Becomes(PingEnds(w1, i))

NextPing == NextRelay \/ PingTick \/ PingCancelled \/ PingRead \/ PingWrite

SpecPing == InitRelay /\ [][NextPing]_vars

(***************************************************************************)
(* C32.  Every ping is written to the socket for which its goroutine was   *)
(* started: no goroutine started by one registration writes to the socket  *)
(* of a later dial (a write that fails is not counted).                    *)
(***************************************************************************)
C32_NoStalePing ==
    \A i \in 1..Len(env.pingLog) :
       env.pingLog[i].ok => env.pingLog[i].sock = env.pingLog[i].by

\* the sockets that were dialed and on which Close was not called
OpenSockets == env.opened \ env.closed

(***************************************************************************)
(* C39.  At most one dialed socket is open at any time: every socket is    *)
(* closed before the next one is dialed, after a failed handshake and      *)
(* after a failed read on a registered socket.                             *)
(***************************************************************************)
C39_OneOpenSocket == Cardinality(OpenSockets) <= 1

\* the mode messages put on the socket so far, in the order of their writes
ModesSent == SelectSeq(SentTexts, LAMBDA t : t \in {ModeText("pc"), ModeText("mobile")})

(***************************************************************************)
(* C40.  The mode messages are sent in the order of the transitions: when  *)
(* no notification goroutine is pending, the last mode message written to  *)
(* the socket names the current client.                                    *)
(***************************************************************************)
C40_LastModeIsCurrent ==
    (tk.modeTasks = <<>> /\ ModesSent # <<>>) =>
        ModesSent[Len(ModesSent)] = ModeText(d.currentClient)

(***************************************************************************)
(* The debounce on its clock.  The mobile takes the viewport; keys are     *)
(* typed at the PC at any moments; a timer runs its function when its      *)
(* delay has passed, and the clock does not pass a timer that is due.      *)
(***************************************************************************)
Armed == {i \in 1..Len(tk.timers) : tk.timers[i].st = "armed"}
FiredTimers == {i \in 1..Len(tk.timers) : tk.timers[i].st = "fired"}

\* 50 ms pass
DebounceTick ==
    /\ Running
    /\ \A i \in Armed : tk.timers[i].left > 0
    /\ Becomes([World EXCEPT
                  !.tk.timers = [i \in 1..Len(@) |->
                                   IF @[i].st = "armed"
                                   THEN [@[i] EXCEPT !.left = @ - 1] ELSE @[i]],
                  !.tk.sinceKey = IF @ < PCSwitchDelay THEN @ + 1 ELSE @])

\* a timer whose delay has passed
TimerExpire ==
    /\ Running
    /\ \E i \in 1..Len(tk.timers) : tk.timers[i].left = 0 /\ TimerFires(i)

\* the stdin goroutine reads a printable key
StdinDebounce ==
    /\ Running /\ tk.nKeys < MaxBurst
    /\ \E char \in PCKeys :
         Becomes([stdinByte([World EXCEPT !.tk.nKeys = @ + 1], char)
                    EXCEPT !.tk.sinceKey = 0, !.tk.lastInput = "pc"])

\* the mobile announces its size, once
ReadDebounce ==
    /\ Reading /\ tk.rd.pc = "read" /\ tk.nFrames = 0
    /\ LET msg == InputEdgeFrames[1] IN
         Becomes([handleWebSocketMessage(
                    [World EXCEPT !.tk.nFrames = 1, !.tk.rdMsg = msg], msg)
                    EXCEPT !.tk.lastInput = "mobile"])

NextDebounce ==
    \/ ReadDebounce \/ ReaderSwitchBegin \/ ReaderSwitchResize \/ ReaderSwitchCommit
    \/ StdinDebounce \/ DebounceTick \/ TimerExpire
    \/ CallbackBegin \/ CallbackResize \/ CallbackCommit
    \/ Nudge \/ ModeNotify

SpecDebounce == InitInputEdge /\ [][NextDebounce]_vars

\* a printable key read while a timer is armed: that timer is stopped and a
\* new one is started with the whole delay, and nothing fires in the step
C36_ResetStep ==
    (tk'.nKeys = tk.nKeys + 1 /\ Armed # {}) =>
        /\ \A i \in Armed : tk'.timers[i].st = "stopped"
        /\ Len(tk'.timers) = Len(tk.timers) + 1
        /\ tk'.timers[Len(tk'.timers)] = [left |-> PCSwitchDelay, st |-> "armed"]
        /\ tk'.cbs = tk.cbs /\ d'.currentClient = d.currentClient

\* a timer fires only when the debounce has passed since the last key; it
\* is the timer of that key, and none is armed afterwards
C36_FireStep ==
    Len(tk'.cbs) > Len(tk.cbs) =>
        /\ tk.sinceKey >= PCSwitchDelay
        /\ Armed = {Len(tk.timers)}
        /\ tk'.timers = [tk.timers EXCEPT ![Len(tk.timers)].st = "fired"]
        /\ d'.pcSwitchTimer = "fired"

\* the transition to the PC is made by the function of a timer
C36_SwitchStep ==
    (d.currentClient # "pc" /\ d'.currentClient = "pc") =>
        Len(tk'.cbs) < Len(tk.cbs)

(***************************************************************************)
(* C36.  The debounce is one timer that is reset: at most one timer is     *)
(* armed at any time, and it is the one d.pcSwitchTimer points to; a       *)
(* printable key read while it is armed stops it and starts the delay      *)
(* anew; a timer fires only when the whole delay has passed since the last *)
(* key, so that keys closer to each other than the delay lead to at most   *)
(* one transition to the PC, made by the timer of the last key: there are  *)
(* never more transitions to the PC than timers that fired.                *)
(***************************************************************************)
C36_SingleResettableTimer ==
    /\ [](/\ Cardinality(Armed) <= 1
          /\ Armed \subseteq {Len(tk.timers)}
          /\ (Armed # {}) <=> (d.pcSwitchTimer = "armed")
          /\ Count(SentTexts, ModeText("pc")) + Count(tk.modeTasks, "pc")
                <= Cardinality(FiredTimers))
    /\ [][C36_ResetStep /\ C36_FireStep /\ C36_SwitchStep]_vars


(***************************************************************************)
(* The QR screen opened from the mobile: the mobile sends the line //qr    *)
(* and then a byte; a key may be typed at the PC, or none.                 *)
(***************************************************************************)
MobileQRFrames ==
    <<Sealed(1, LitCommand("//qr") \o <<13>>), Sealed(1, <<120>>)>>

InitMobileQR ==
    /\ d = DaemonStarted
    /\ env = EnvStarted
    /\ tk = [TasksStarted EXCEPT !.side = "pc", !.script = <<27>>]

\* the reader takes the next frame of the mobile off the socket
ReadMobileQR ==
    /\ Reading /\ tk.rd.pc = "read" /\ tk.nFrames < Len(MobileQRFrames)
    /\ LET msg == MobileQRFrames[tk.nFrames + 1] IN
         Becomes(handleWebSocketMessage(
                   [World EXCEPT !.tk.nFrames = @ + 1, !.tk.rdMsg = msg], msg))

NextMobileQR ==
    \/ ReadMobileQR \/ ReaderWrite
    \/ StdinQR
    \/ QRCtrlC \/ QRCtrlL \/ QRKeyRead \/ QRKeyHandle
    \/ QRExitRequested \/ QRPairingDone \/ QRClose

SpecMobileQR == InitMobileQR /\ [][NextMobileQR]_vars

\* the goroutines of the program go on when they can; nobody has to type at
\* the PC, and the pairing need not complete (the poll ends on its timeout
\* or on "expired" without calling onComplete); weak fairness of
\* ReadMobileQR is written out
FairMobileQR ==
    /\ SpecMobileQR
    /\ \/ []<>(~(Reading /\ tk.rd.pc = "read" /\ tk.nFrames < Len(MobileQRFrames)))
       \/ []<><<tk'.nFrames = tk.nFrames + 1>>_vars
    /\ WF_vars(ReaderWrite)
    /\ WF_vars(QRCtrlC) /\ WF_vars(QRCtrlL) /\ WF_vars(QRKeyHandle)
    /\ WF_vars(QRExitRequested) /\ WF_vars(QRClose)

(***************************************************************************)
(* C38.  A meta-command of the mobile does not stop the reader for ever:   *)
(* the frames that follow it are taken off the socket and handled, whether *)
(* or not a key is typed at the PC.                                        *)
(***************************************************************************)
C38_ReaderGoesOn ==
    <>(tk.nFrames = Len(MobileQRFrames) /\ tk.rd.pc = "read" /\ tk.rdData = <<>>)

(***************************************************************************)
(* The whole program from its start: every task and every kind of frame.   *)
(* The specifications above are its parts, each with the traffic one       *)
(* subsystem handles.                                                      *)
(***************************************************************************)
Init == InitRelay

AllFrames ==
    UploadFrames \cup CryptoFrames \cup ViewportFrames \cup RelayFrames
    \cup LifecycleFrames

Next ==
    \/ RelayTop \/ RelayRecreate \/ RelayDial \/ RelayHandshake
    \/ SocketLost \/ RelayTeardown \/ RelayWake
    \/ ReadFrom(AllFrames, MaxFrames)
    \/ ReaderSwitchBegin \/ ReaderSwitchResize \/ ReaderSwitchCommit
    \/ ReaderResizeApply \/ ReaderWrite
    \/ SaveTask \/ Nudge \/ ModeNotify \/ UploadGC \/ Tick
    \/ StdinFrom(PCKeys \cup {47, 113, 117, 105, 116, 13}, MaxKeys)
    \/ TimerFire \/ CallbackBegin \/ CallbackResize \/ CallbackCommit
    \/ SigwinchTo(PCSizes)
    \/ Sigint \/ ChildExit \/ SignalKill \/ PtyReadError

Spec == Init /\ [][Next]_vars

=============================================================================
